---- MODULE Spec2Model ----
(***************************************************************************)
(* FTTH ticket / subscription monitor (src/monitor.py).                    *)
(*                                                                         *)
(* One run of the monitor is one operating-system process: Monitor() is    *)
(* constructed (the two state files are loaded), run() is awaited, the     *)
(* process exits.  The model follows run() statement by statement, cut at  *)
(* its awaits, for up to two processes that share the persisted files.     *)
(***************************************************************************)
EXTENDS Integers, Sequences, FiniteSets, TLC

\* ------------------------------------------------------------------ bounds
MaxRuns == 2
MaxItems == 2
MaxSubs == 2
MaxTicks == 1
\* page_size of _fetch_subscriptions_api (100 in the code), scaled to MaxSubs
PageSize == 1
TickSeconds == 300
T0 == 1000000

\* ------------------------------------------------------- program constants
MAX_TICKET_AGE_HOURS == 24
MIN_RUN_INTERVAL == 300
SECONDS_PER_HOUR == 3600

Procs == {1, 2}

None == "None"

\* ---------------------------------------------------------- remote server
\* Tickets the dashboard API can return.  createdAt is an epoch second; the
\* first ticket is exactly MAX_TICKET_AGE_HOURS old at T0 and older later,
\* the second stays recent, the third item carries no displayId.  T3 is a
\* ticket of earlier runs that has left the first page of the API.
TicketIds == {"T1", "T2", "T3"}
ServerTickets ==
    { [displayId |-> "T1", createdAt |-> T0 - MAX_TICKET_AGE_HOURS * SECONDS_PER_HOUR],
      [displayId |-> "T2", createdAt |-> T0 - SECONDS_PER_HOUR],
      [displayId |-> "",   createdAt |-> T0 - SECONDS_PER_HOUR] }

SubIds == {"S1", "S2"}
RawStatuses == {"Active", "Expired", "Suspended"}
\* Subscriptions the API can return: S1 in any status, S2 always active,
\* and an item that carries no id.
ServerSubs ==
    { [id |-> "S1", status |-> s] : s \in RawStatuses }
        \cup { [id |-> "S2", status |-> "Active"], [id |-> "", status |-> "Active"] }

SeqsUpTo(S, n) == UNION { [1..k -> S] : k \in 0..n }

\* ----------------------------------------------------------- pure helpers
\* str.lower() on the status vocabulary of the model
Lower(s) ==
    CASE s = "Active" -> "active"
      [] s = "Expired" -> "expired"
      [] s = "Suspended" -> "suspended"
      [] OTHER -> s

\* the normalisation of get_changes (and of the first-run branch of run)
Normalize(raw) ==
    LET s == Lower(raw) IN
    IF s \in {"active"} THEN "active"
    ELSE IF s \in {"expired"} THEN "expired"
    ELSE s

\* the copy of that normalisation in the first-run branch of run()
NormalizeFirst(raw) ==
    LET status == Lower(raw) IN
    IF status \in {"active"} THEN "active"
    ELSE IF status \in {"expired"} THEN "expired"
    ELSE status

\* sub.get('self', {}).get('id') or sub.get('id'); falsy ids are skipped
SubId(sub) == sub.id

\* TicketState.is_new
is_new_always(known, tid) == TRUE
is_new(known, tid) == tid \notin known

\* as the list comprehension, but building the list back to front
RECURSIVE NewTickets_reversed(_, _)
NewTickets_reversed(its, known) ==
    IF its = <<>> THEN <<>>
    ELSE LET t == Head(its) IN
         IF t.displayId # "" /\ is_new(known, t.displayId)
         THEN NewTickets_reversed(Tail(its), known) \o <<t>>
         ELSE NewTickets_reversed(Tail(its), known)

\* the list comprehension that computes `new` in run()
RECURSIVE NewTickets(_, _)
NewTickets(its, known) ==
    IF its = <<>> THEN <<>>
    ELSE LET t == Head(its) IN
         IF t.displayId # "" /\ is_new(known, t.displayId)
         THEN <<t>> \o NewTickets(Tail(its), known)
         ELSE NewTickets(Tail(its), known)

\* the first-run loop: every item with a displayId is added
IdsOf(its) == { its[i].displayId : i \in 1..Len(its) } \ {""}

\* run(): `if len(self.state.known) == 0`
IsFirstRun_never(known) == FALSE
IsFirstRun(known) == Cardinality(known) = 0

\* run(): the age filter, age_hours > MAX_TICKET_AGE_HOURS
TooOld(t, now) ==
    (now - t.createdAt) > MAX_TICKET_AGE_HOURS * SECONDS_PER_HOUR

\* names bound in the module namespace by `from datetime import ...`
DatetimeImports_withTimedelta == {"datetime", "timezone", "timedelta"}
DatetimeImports == {"datetime", "timezone"}

\* Telegram.format: evaluates timezone(timedelta(hours=3)); the name
\* timedelta is looked up in the module namespace when the line runs.
format(t) ==
    IF "timedelta" \in DatetimeImports THEN "message" ELSE "NameError"

\* run(): the Run Guard condition
ShouldSkip_never(last_run, now) == FALSE
ShouldSkip_short(last_run, now) == last_run > 0 /\ (now - last_run) < 100
ShouldSkip(last_run, now) == last_run > 0 /\ (now - last_run) < MIN_RUN_INTERVAL

\* SubscriptionState.get_changes: returns the three lists and the updated map
RECURSIVE get_changes_keep(_, _)
get_changes_keep(subs, cur) ==
    IF cur = <<>> THEN [expired |-> <<>>, renewed |-> <<>>, new_subs |-> <<>>, subs |-> subs]
    ELSE
      LET sub == Head(cur)
          sid == SubId(sub)
          st  == Normalize(sub.status)
          old == IF sid = "" THEN None ELSE subs[sid]
          rest == get_changes_keep(subs, Tail(cur))
      IN IF sid = "" THEN rest
         ELSE IF old = None THEN [rest EXCEPT !.new_subs = <<sub>> \o @]
         ELSE IF old # st THEN
              IF old = "active" /\ st = "expired"
                 THEN [rest EXCEPT !.expired = <<sub>> \o @]
              ELSE IF old = "expired" /\ st = "active"
                 THEN [rest EXCEPT !.renewed = <<sub>> \o @]
              ELSE rest
         ELSE rest

RECURSIVE get_changes_loud(_, _)
get_changes_loud(subs, cur) ==
    IF cur = <<>> THEN [expired |-> <<>>, renewed |-> <<>>, new_subs |-> <<>>, subs |-> subs]
    ELSE
      LET sub == Head(cur)
          sid == SubId(sub)
          st  == Normalize(sub.status)
          old == IF sid = "" THEN None ELSE subs[sid]
          subs1 == IF sid = "" \/ old = st THEN subs ELSE [subs EXCEPT ![sid] = st]
          rest == get_changes_loud(subs1, Tail(cur))
      IN IF sid = "" THEN rest
         ELSE IF old = None THEN [rest EXCEPT !.new_subs = <<sub>> \o @]
         ELSE IF old # st THEN
              IF st = "expired"
                 THEN [rest EXCEPT !.expired = <<sub>> \o @]
              ELSE IF st = "active"
                 THEN [rest EXCEPT !.renewed = <<sub>> \o @]
              ELSE rest
         ELSE rest

RECURSIVE get_changes(_, _)
get_changes(subs, cur) ==
    IF cur = <<>> THEN [expired |-> <<>>, renewed |-> <<>>, new_subs |-> <<>>, subs |-> subs]
    ELSE
      LET sub == Head(cur)
          sid == SubId(sub)
          st  == Normalize(sub.status)
          old == IF sid = "" THEN None ELSE subs[sid]
          subs1 == IF sid = "" \/ old = st THEN subs ELSE [subs EXCEPT ![sid] = st]
          rest == get_changes(subs1, Tail(cur))
      IN IF sid = "" THEN rest
         ELSE IF old = None THEN [rest EXCEPT !.new_subs = <<sub>> \o @]
         ELSE IF old # st THEN
              IF old = "active" /\ st = "expired"
                 THEN [rest EXCEPT !.expired = <<sub>> \o @]
              ELSE IF old = "expired" /\ st = "active"
                 THEN [rest EXCEPT !.renewed = <<sub>> \o @]
              ELSE rest
         ELSE rest

RECURSIVE StoreAll_first(_, _)
StoreAll_first(subs, cur) ==
    IF cur = <<>> THEN subs
    ELSE LET sub == Head(cur) IN
         IF SubId(sub) = "" \/ subs[SubId(sub)] # None THEN StoreAll_first(subs, Tail(cur))
         ELSE StoreAll_first([subs EXCEPT ![SubId(sub)] = Normalize(sub.status)], Tail(cur))

\* as the first-run loop, but storing the status as the API spelled it
RECURSIVE StoreAll_raw(_, _)
StoreAll_raw(subs, cur) ==
    IF cur = <<>> THEN subs
    ELSE LET sub == Head(cur) IN
         IF SubId(sub) = "" THEN StoreAll_raw(subs, Tail(cur))
         ELSE StoreAll_raw([subs EXCEPT ![SubId(sub)] = sub.status], Tail(cur))

\* run(): the first-run loop over subscriptions
RECURSIVE StoreAll(_, _)
StoreAll(subs, cur) ==
    IF cur = <<>> THEN subs
    ELSE LET sub == Head(cur) IN
         IF SubId(sub) = "" THEN StoreAll(subs, Tail(cur))
         ELSE StoreAll([subs EXCEPT ![SubId(sub)] = NormalizeFirst(sub.status)], Tail(cur))

EmptySubs == [i \in SubIds |-> None]
SubsCount(subs) == Cardinality({ i \in SubIds : subs[i] # None })

\* the three notification loops of run(), in their order
RECURSIVE Tag(_, _)
Tag(cat, s) ==
    IF s = <<>> THEN <<>> ELSE <<[cat |-> cat, id |-> SubId(Head(s))]>> \o Tag(cat, Tail(s))

PendingOf_noRenewed(ch) ==
    Tag("expired", ch.expired) \o Tag("new_sub", ch.new_subs)

PendingOf_newOnly(ch) == Tag("new_sub", ch.new_subs)

PendingOf(ch) ==
    Tag("expired", ch.expired) \o Tag("renewed", ch.renewed) \o Tag("new_sub", ch.new_subs)


\* ------------------------------------------------------------------ state
VARIABLES
    knownFile,      \* known_tickets.json: [exists, tickets, last_run]
    subsFile,       \* known_subscriptions.json: [exists, subscriptions]
    sessionFile,    \* browser_state.json exists
    now,            \* wall clock, epoch seconds
    runs,           \* processes started so far
    active,         \* the processes the schedulers may start
    server,         \* the tickets the dashboard holds
    pc,             \* position of each process in run()
    result,         \* what run() returned / how the process ended
    known,          \* TicketState.known of the process
    subscriptions,  \* SubscriptionState.subscriptions of the process
    items,          \* result.get('items', []) of the ticket fetch
    new,            \* the part of `new` the ticket loop has not reached yet
    pending,        \* subscription notifications the loops have not sent yet
    whatsapp_buffer,\* Monitor.whatsapp_buffer
    page,           \* `page` of _fetch_subscriptions_api (0: not in the call); after
                    \* a failed call, the page that failed
    loaded,         \* history: the known set the process loaded
    loadedSubs,     \* history: the subscription map the process loaded
    subItems,       \* history: the fetched subscription list
    fetched,        \* history: how the two fetches of the run ended (subs: "ok" when
                    \* every page request succeeded, "none" when one failed)
    devMsgs,        \* history: send_to_dev calls of the run
    busMsgs,        \* history: send_to_all calls of the run
    wrote,          \* history: files written and resources used by the run
    due,            \* history: tickets that reached the dispatch statement
    skippedOld,     \* history: tickets the age filter skipped
    failures,       \* history: business-notification failures of the run
    guardAt,        \* history: [last_run, now] the Run Guard read (until the fetch)
    calls,          \* history: the API calls made by the step just taken
    triedLogin,     \* history: the ticket fetch called auto_login (until the diff)
    steps,          \* history: what fetch() did in the step just taken, in order
    dispatch,       \* a text handed to Telegram and the environment it meets
    outbox,         \* what Telegram did with it: settings loaded, posts made
    passes,         \* history: when the runs that fetched had passed the Run Guard
    pages,          \* history: the responses one _fetch_subscriptions_api call got
    cut,            \* history: the save() calls a kill cut short
    form,           \* auto_login: the login page it meets and how far it got
    bot,            \* settings bot: settings.json, the repository, the last click
    ticketSends,    \* history: per displayId, ticket notifications ever sent
    seenKnown       \* history: ids found in knownFile by some starting run

files == <<knownFile, subsFile, sessionFile>>
local == <<pc, result, known, subscriptions, items, new, pending, whatsapp_buffer, page>>
hist  == <<loaded, loadedSubs, subItems, fetched, devMsgs, busMsgs, wrote, due,
           skippedOld, failures, guardAt, triedLogin>>
\* history kept only by the specification that reads it
aux   == <<passes, pages, cut, form, bot>>
dvars == <<dispatch, outbox, aux>>
vars  == <<files, now, runs, active, server, local, hist, calls, steps, dvars,
           ticketSends, seenKnown>>

\* ------------------------------------------------------------ persistence
\* A state file: exists (the path is a file), json (json.loads accepts its
\* text) and what the text spells.  A file whose text does not parse keeps
\* the members a reader more lenient than json.loads would still find.
NoKnownFile == [exists |-> FALSE, json |-> FALSE, tickets |-> {}, last_run |-> 0]
NoSubsFile == [exists |-> FALSE, json |-> FALSE, subscriptions |-> EmptySubs]

\* as TicketState.__init__, but reading on past a text that does not parse
LoadKnown_lenient(f) == IF f.exists THEN f.tickets ELSE {}
\* TicketState.__init__: the 'tickets' list of the file, or the empty set
\* when the file is missing or json.loads raises
LoadKnown(f) == IF f.exists /\ f.json THEN f.tickets ELSE {}

\* TicketState.get_last_run: 'last_run' of the file, 0 when it cannot be read
get_last_run(f) == IF f.exists /\ f.json THEN f.last_run ELSE 0

\* SubscriptionState.__init__
LoadSubs(f) == IF f.exists /\ f.json THEN f.subscriptions ELSE EmptySubs

\* TicketState.save: the whole file is rewritten from the process's set
SaveKnown(k, t) == [exists |-> TRUE, json |-> TRUE, tickets |-> k, last_run |-> t]

\* SubscriptionState.save
SaveSubscriptions(m) == [exists |-> TRUE, json |-> TRUE, subscriptions |-> m]

\* ------------------------------------------------------------------- Init
\* The files start in a state an earlier deployment can have left: absent,
\* or written by earlier runs more than the guard interval ago.  The
\* subscription file exists only once a run got past the ticket phase,
\* which needs a non-empty known set.
EarlierRunAge == 100
\* known sets of earlier runs: nothing fetched yet, or T3 and more
EarlierKnown == {{}} \cup { k \cup {"T3"} : k \in SUBSET {"T1", "T2"} }
\* the maps StoreAll / get_changes can build from ServerSubs
StoredMaps ==
    { m \in [SubIds -> { Normalize(s) : s \in RawStatuses } \cup {None}] :
        \A i \in SubIds : m[i] # None =>
            \E x \in ServerSubs : x.id = i /\ Normalize(x.status) = m[i] }

InitFiles ==
    /\ knownFile \in {NoKnownFile} \cup
           { SaveKnown(k, T0 - d) : k \in EarlierKnown,
                                    d \in {2 * MIN_RUN_INTERVAL, EarlierRunAge} }
    /\ subsFile \in {NoSubsFile} \cup
           { SaveSubscriptions(m) : m \in StoredMaps }
    /\ (subsFile.exists => knownFile.tickets # {})
    /\ sessionFile \in BOOLEAN

InitMemory ==
    /\ now = T0
    /\ runs = 0
    /\ result = [p \in Procs |-> None]
    /\ known = [p \in Procs |-> {}]
    /\ subscriptions = [p \in Procs |-> EmptySubs]
    /\ items = [p \in Procs |-> <<>>]
    /\ new = [p \in Procs |-> <<>>]
    /\ pending = [p \in Procs |-> <<>>]
    /\ whatsapp_buffer = [p \in Procs |-> <<>>]
    /\ loaded = [p \in Procs |-> {}]
    /\ loadedSubs = [p \in Procs |-> EmptySubs]
    /\ subItems = [p \in Procs |-> <<>>]
    /\ fetched = [p \in Procs |-> [tickets |-> None, subs |-> None]]
    /\ devMsgs = [p \in Procs |-> <<>>]
    /\ busMsgs = [p \in Procs |-> <<>>]
    /\ wrote = [p \in Procs |-> {}]
    /\ due = [p \in Procs |-> {}]
    /\ skippedOld = [p \in Procs |-> {}]
    /\ failures = [p \in Procs |-> {}]
    /\ guardAt = [p \in Procs |-> [last_run |-> 0, now |-> 0]]
    /\ calls = <<>>
    /\ steps = <<>>
    /\ triedLogin = [p \in Procs |-> FALSE]
    /\ ticketSends = [i \in TicketIds |-> 0]
    /\ seenKnown = {}

\* no process has been started
InitRest ==
    /\ InitMemory
    /\ pc = [p \in Procs |-> "idle"]
    /\ page = [p \in Procs |-> 0]

\* no text has been handed to Telegram
NoText == [text |-> None]
NoDispatch ==
    /\ dispatch = NoText
    /\ outbox = [done |-> FALSE, posts |-> <<>>]

\* SETTINGS_MAP of settings_bot.py: the category keys
SETTINGS_MAP == {"notify_tickets", "notify_expired", "notify_renewed", "notify_new_sub"}

\* A copy of settings.json: exists, and per key "true", "false" or "missing"
\* (the dict has no such key).
NoSettings == [exists |-> FALSE, d |-> [k \in SETTINGS_MAP |-> "missing"]]
NoClick ==
    [user |-> None, chat |-> None, status |-> None, data |-> <<>>,
     before |-> NoSettings, loaded |-> NoSettings.d, written |-> FALSE, wrote |-> NoSettings]
\* the settings bot has started: nothing known yet, no click
BotStart ==
    [SETTINGS_FILE |-> NoSettings, origin |-> NoSettings, github |-> NoSettings,
     allow_list |-> {}, clicks |-> 0, click |-> NoClick]
\* the settings bot is not running
NoBot == <<>>

\* auto_login has been called and has done nothing yet
FormStart ==
    [pc |-> "idle", creds |-> FALSE, nav |-> None, accepted |-> FALSE, store |-> FALSE,
     markup |-> [username |-> {}, password |-> {}, submit |-> {}],
     tried |-> <<>>, filled |-> {}, saved |-> FALSE, result |-> None]
\* auto_login has not been called
NoForm == <<>>

\* no history of the small specifications yet
NoAux ==
    /\ passes = <<>>
    /\ pages = <<>>
    /\ cut = {}
    /\ form = NoForm
    /\ bot = NoBot

Init ==
    /\ InitFiles /\ InitRest /\ NoDispatch /\ NoAux
    /\ active = {1} /\ server = ServerTickets
\* Two schedulers: both may start the program, on files that an earlier
\* deployment left behind; the dashboard holds one recent ticket.
InitOverlap ==
    /\ knownFile \in {NoKnownFile, SaveKnown({"T3"}, T0 - 2 * MIN_RUN_INTERVAL)}
    /\ subsFile = NoSubsFile
    /\ sessionFile = TRUE
    /\ InitRest
    /\ NoDispatch
    /\ NoAux
    /\ active = Procs
    /\ server = { t \in ServerTickets : t.displayId = "T2" }


\* ---------------------------------------------------------------- actions
Running(p) == pc[p] \notin {"idle", "done"}

\* Telegram.send swallows every error of its HTTP calls and returns False,
\* send_to_all ignores that value: a failed send only leaves a trace.
Sent(p, ok) == IF ok THEN failures[p] ELSE failures[p] \cup {"send"}

\* A scheduler starts the program: Monitor.__init__ builds TicketState and
\* SubscriptionState, which read the two state files.
Construct(p) ==
    /\ p \in active
    /\ pc[p] \in {"idle", "done"}
    /\ runs < MaxRuns
    /\ runs' = runs + 1
    /\ pc' = [pc EXCEPT ![p] = "guard"]
    /\ result' = [result EXCEPT ![p] = None]
    /\ known' = [known EXCEPT ![p] = LoadKnown(knownFile)]
    /\ subscriptions' = [subscriptions EXCEPT ![p] = LoadSubs(subsFile)]
    /\ items' = [items EXCEPT ![p] = <<>>]
    /\ new' = [new EXCEPT ![p] = <<>>]
    /\ pending' = [pending EXCEPT ![p] = <<>>]
    /\ whatsapp_buffer' = [whatsapp_buffer EXCEPT ![p] = <<>>]
    /\ loaded' = [loaded EXCEPT ![p] = LoadKnown(knownFile)]
    /\ loadedSubs' = [loadedSubs EXCEPT ![p] = LoadSubs(subsFile)]
    /\ subItems' = [subItems EXCEPT ![p] = <<>>]
    /\ fetched' = [fetched EXCEPT ![p] = [tickets |-> None, subs |-> None]]
    /\ devMsgs' = [devMsgs EXCEPT ![p] = <<>>]
    /\ busMsgs' = [busMsgs EXCEPT ![p] = <<>>]
    /\ wrote' = [wrote EXCEPT ![p] = {}]
    /\ due' = [due EXCEPT ![p] = {}]
    /\ skippedOld' = [skippedOld EXCEPT ![p] = {}]
    /\ failures' = [failures EXCEPT ![p] = {}]
    /\ guardAt' = [guardAt EXCEPT ![p] = [last_run |-> 0, now |-> 0]]
    /\ page' = [page EXCEPT ![p] = 0]
    /\ calls' = <<>>
    /\ steps' = <<>>
    /\ UNCHANGED dvars
    /\ triedLogin' = [triedLogin EXCEPT ![p] = FALSE]
    /\ seenKnown' = seenKnown \cup LoadKnown(knownFile)
    /\ UNCHANGED <<files, now, active, server, ticketSends>>

\* run(): the Run Guard, then setup() launches the browser
RunGuard(p) ==
    /\ pc[p] = "guard"
    /\ LET last_run == get_last_run(knownFile) IN
       /\ guardAt' = [guardAt EXCEPT ![p] = [last_run |-> last_run, now |-> now]]
       /\ IF ShouldSkip(last_run, now)
          THEN /\ pc' = [pc EXCEPT ![p] = "done"]
               /\ result' = [result EXCEPT ![p] = "True"]
               /\ wrote' = wrote
          ELSE /\ pc' = [pc EXCEPT ![p] = "fetch"]
               /\ result' = result
               /\ wrote' = [wrote EXCEPT ![p] = @ \cup {"browser"}]
    /\ calls' = <<>>
    /\ steps' = <<>>
    /\ UNCHANGED dvars
    /\ UNCHANGED <<files, now, runs, active, server, known, subscriptions, items, new,
                   pending, whatsapp_buffer, loaded, loadedSubs, subItems, fetched,
                   devMsgs, busMsgs, due, skippedOld, failures, ticketSends, seenKnown,
                   page, triedLogin>>

\* What one request of the in-page script gets: an HTTP status, or "error"
\* when fetch() throws (transport failure).
Statuses == {"200", "401", "500", "error"}

\* The script both _fetch_api and _fetch_subscriptions_api hand to
\* page.evaluate.  tok: localStorage holds an access token; s1, s2: what the
\* first and the second request get.  sent: the responses of the requests
\* made; error: the 'error' member of the object returned (None: the JSON of
\* a 2xx response).
api_request_once(tok, s1, s2) ==
    IF ~tok THEN [sent |-> <<>>, error |-> "no_token"]
    ELSE [sent |-> <<s1>>,
          error |-> IF s1 = "200" THEN None
                    ELSE IF s1 = "error" THEN "message" ELSE s1]

api_request(tok, s1, s2) ==
    IF ~tok THEN [sent |-> <<>>, error |-> "no_token"]
    ELSE LET sent == IF s1 = "401" THEN <<s1, s2>> ELSE <<s1>>
             last == sent[Len(sent)]
         IN [sent |-> sent,
             error |-> IF last = "200" THEN None
                       ELSE IF last = "error" THEN "message" ELSE last]

PageCalls == { api_request(tok, s1, s2) : tok \in BOOLEAN, s1 \in Statuses, s2 \in Statuses }

\* where page.goto ends: on the dashboard, on the SSO domain, in an exception
Navigations == {"dashboard", "sso", "exception"}

\* Monitor._fetch_api: None on the SSO domain and on any exception, else
\* what the script returned
fetch_api(nav, tok, s1, s2) ==
    IF nav = "dashboard" THEN api_request(tok, s1, s2)
    ELSE [sent |-> <<>>, error |-> nav]

TicketCalls ==
    { fetch_api(nav, tok, s1, s2) :
        nav \in Navigations, tok \in BOOLEAN, s1 \in Statuses, s2 \in Statuses }

\* How fetch() and run() read a result of _fetch_api: "ok": a page of
\* tickets; "sso", "exception": None; "token": error no_token / 401;
\* "other": any other error dict.
ApiOutcomes == {"ok", "sso", "exception", "token", "other"}

Outcome(call) ==
    IF call.error = None THEN "ok"
    ELSE IF call.error \in {"sso", "exception"} THEN call.error
    ELSE IF call.error \in {"no_token", "401"} THEN "token"
    ELSE "other"

\* browser_refresh_token: nav is where the dashboard navigation ends, login
\* what auto_login returns, tok whether a token is in localStorage afterwards
browser_refresh_token(nav, login, tok) ==
    IF nav = "exception" THEN [ok |-> FALSE, login |-> FALSE]
    ELSE IF nav = "sso" THEN [ok |-> login, login |-> TRUE]
    ELSE [ok |-> tok, login |-> FALSE]

\* Monitor.fetch: r1, r2 are the outcomes of the first and the second
\* _fetch_api, rf what browser_refresh_token returned
FetchResult(r1, rf, r2) ==
    IF r1 # "token" THEN r1
    ELSE IF rf /\ r2 = "ok" THEN "ok"
    ELSE "auth"

\* Monitor.fetch, in the order of its statements: "api" a call of
\* _fetch_api, "save" a storage_state() into the session file (line 760 after
\* a page of tickets, line 783 after a refresh), "login" / "refreshed" a
\* browser_refresh_token that returned True with / without auto_login,
\* "refresh_failed" one that returned False.  rf: its result, r1, r2: the
\* outcomes of the two _fetch_api calls.
fetch_steps_late(r1, rf, r2) ==
    <<"api">> \o
    (IF r1 = "ok" THEN <<"save">>
     ELSE IF r1 # "token" THEN <<>>
     ELSE IF ~rf.ok THEN <<"refresh_failed">>
     ELSE <<IF rf.login THEN "login" ELSE "refreshed", "api">>
          \o (IF r2 = "ok" THEN <<"save">> ELSE <<>>))

\* as fetch(), but a retry that meets a token error starts a second cycle
fetch_steps_again(r1, rf, r2) ==
    <<"api">> \o
    (IF r1 = "ok" THEN <<"save">>
     ELSE IF r1 # "token" THEN <<>>
     ELSE IF ~rf.ok THEN <<"refresh_failed">>
     ELSE <<IF rf.login THEN "login" ELSE "refreshed", "save", "api">>
          \o (IF r2 = "ok" THEN <<"save">>
              ELSE IF r2 = "token" THEN <<"refreshed", "save", "api">>
              ELSE <<>>))

fetch_steps(r1, rf, r2) ==
    <<"api">> \o
    (IF r1 = "ok" THEN <<"save">>
     ELSE IF r1 # "token" THEN <<>>
     ELSE IF ~rf.ok THEN <<"refresh_failed">>
     ELSE <<IF rf.login THEN "login" ELSE "refreshed", "save", "api">>
          \o (IF r2 = "ok" THEN <<"save">> ELSE <<>>))

Count(seq, x) == Cardinality({ k \in 1..Len(seq) : seq[k] = x })

\* run(): `if not result` -- None is falsy, a dict with members is truthy
IsFalsy_never(res) == FALSE
IsFalsy(res) == res \notin {"ok", "other"}

\* Monitor.fetch and the test of its result in run()
FetchStep(p) ==
    /\ pc[p] = "fetch"
    /\ \E c1 \in TicketCalls :
       LET r1 == Outcome(c1) IN
       \E rnav \in (IF r1 = "token" THEN Navigations ELSE {"exception"}) :
       \E login \in (IF r1 = "token" /\ rnav = "sso" THEN BOOLEAN ELSE {FALSE}) :
       \E tok \in (IF r1 = "token" /\ rnav = "dashboard" THEN BOOLEAN ELSE {FALSE}) :
       LET rf == browser_refresh_token(rnav, login, tok) IN
       \E c2 \in (IF r1 = "token" /\ rf.ok THEN TicketCalls ELSE {c1}) :
         LET st == fetch_steps(r1, rf, Outcome(c2))
             again == Count(st, "api") = 2
             saved == Count(st, "save") > 0
             res == FetchResult(r1, rf.ok, Outcome(c2))
         IN
         \E its \in (IF res = "ok" THEN SeqsUpTo(server, MaxItems) ELSE {<<>>}) :
         /\ fetched' = [fetched EXCEPT ![p].tickets = res]
         /\ calls' = IF again THEN <<c1, c2>> ELSE <<c1>>
         /\ steps' = st
         /\ triedLogin' = [triedLogin EXCEPT ![p] = r1 = "token" /\ rf.login]
         /\ sessionFile' = (sessionFile \/ saved)
         /\ wrote' = [wrote EXCEPT ![p] = IF saved THEN @ \cup {"session"} ELSE @]
         /\ devMsgs' = [devMsgs EXCEPT ![p] =
                IF res = "auth" THEN Append(@, "session_expired") ELSE @]
         /\ items' = [items EXCEPT ![p] = its]
         /\ guardAt' = [guardAt EXCEPT ![p] = [last_run |-> 0, now |-> 0]]
         /\ IF IsFalsy(res)
            THEN /\ pc' = [pc EXCEPT ![p] = "done"]
                 /\ result' = [result EXCEPT ![p] = "False"]
            ELSE /\ pc' = [pc EXCEPT ![p] = "tickets"]
                 /\ result' = result
    /\ UNCHANGED <<knownFile, subsFile, now, runs, active, server, known, subscriptions, new,
                   pending, whatsapp_buffer, page, loaded, loadedSubs, subItems, busMsgs,
                   due, skippedOld, failures, ticketSends, seenKnown>>

Fetch(p) == FetchStep(p) /\ UNCHANGED dvars

\* run(): first run, every fetched id is recorded, the file is saved, the
\* 'started' message goes to the developer and run() returns True
FirstRun(p) ==
    /\ pc[p] = "tickets"
    /\ IsFirstRun(known[p])
    /\ known' = [known EXCEPT ![p] = @ \cup IdsOf(items[p])]
    /\ knownFile' = SaveKnown(known'[p], now)
    /\ wrote' = [wrote EXCEPT ![p] = @ \cup {"tickets"}]
    /\ devMsgs' = [devMsgs EXCEPT ![p] = Append(@, "started")]
    /\ pc' = [pc EXCEPT ![p] = "done"]
    /\ result' = [result EXCEPT ![p] = "True"]
    /\ calls' = <<>>
    /\ steps' = <<>>
    /\ UNCHANGED dvars
    /\ triedLogin' = [triedLogin EXCEPT ![p] = FALSE]
    /\ UNCHANGED <<subsFile, sessionFile, now, runs, active, server, subscriptions, items, new,
                   pending, whatsapp_buffer, page, loaded, loadedSubs, subItems, fetched,
                   busMsgs, due, skippedOld, failures, guardAt, ticketSends, seenKnown>>

\* run(): `new = [t for t in items if ...]`
FindNew(p) ==
    /\ pc[p] = "tickets"
    /\ ~IsFirstRun(known[p])
    /\ new' = [new EXCEPT ![p] = NewTickets(items[p], known[p])]
    /\ pc' = [pc EXCEPT ![p] = IF new'[p] = <<>> THEN "save" ELSE "loop"]
    /\ calls' = <<>>
    /\ steps' = <<>>
    /\ UNCHANGED dvars
    /\ triedLogin' = [triedLogin EXCEPT ![p] = FALSE]
    /\ UNCHANGED <<files, now, runs, active, server, result, known, subscriptions, items,
                   pending, whatsapp_buffer, page, loaded, loadedSubs, subItems, fetched,
                   devMsgs, busMsgs, wrote, due, skippedOld, failures, guardAt,
                   ticketSends, seenKnown>>

\* run(): one iteration of `for t in new`
NotifyTicket(p) ==
    /\ pc[p] = "loop"
    /\ new[p] # <<>>
    /\ LET t == Head(new[p])
           tid == t.displayId
           next == IF Tail(new[p]) = <<>> THEN "save" ELSE "loop"
       IN
       /\ known' = [known EXCEPT ![p] = @ \cup {tid}]
       /\ IF TooOld(t, now)
          THEN \* continue
               /\ skippedOld' = [skippedOld EXCEPT ![p] = @ \cup {tid}]
               /\ new' = [new EXCEPT ![p] = Tail(@)]
               /\ pc' = [pc EXCEPT ![p] = next]
               /\ UNCHANGED <<result, due, failures, busMsgs, whatsapp_buffer, ticketSends>>
          ELSE /\ skippedOld' = skippedOld
               /\ due' = [due EXCEPT ![p] = @ \cup {tid}]
               /\ IF format(t) = "NameError"
                  THEN \* the exception leaves run() through its finally
                       /\ pc' = [pc EXCEPT ![p] = "done"]
                       /\ result' = [result EXCEPT ![p] = "exception"]
                       /\ failures' = [failures EXCEPT ![p] = @ \cup {"format"}]
                       /\ UNCHANGED <<new, busMsgs, whatsapp_buffer, ticketSends>>
                  ELSE \E ok \in BOOLEAN :
                       /\ busMsgs' = [busMsgs EXCEPT ![p] =
                              Append(@, [cat |-> "ticket", id |-> tid])]
                       /\ ticketSends' = [ticketSends EXCEPT ![tid] = @ + 1]
                       /\ whatsapp_buffer' = [whatsapp_buffer EXCEPT ![p] =
                              Append(@, [cat |-> "ticket", id |-> tid])]
                       /\ failures' = [failures EXCEPT ![p] = Sent(p, ok)]
                       /\ new' = [new EXCEPT ![p] = Tail(@)]
                       /\ pc' = [pc EXCEPT ![p] = next]
                       /\ result' = result
    /\ calls' = <<>>
    /\ steps' = <<>>
    /\ UNCHANGED dvars
    /\ UNCHANGED <<files, now, runs, active, server, subscriptions, items, pending, loaded,
                   loadedSubs, subItems, fetched, devMsgs, wrote, guardAt, seenKnown,
                   page, triedLogin>>

\* run(): self.state.save() after the ticket loop; then
\* _fetch_subscriptions_api starts with page = 1
SaveTickets(p) ==
    /\ pc[p] = "save"
    /\ knownFile' = SaveKnown(known[p], now)
    /\ wrote' = [wrote EXCEPT ![p] = @ \cup {"tickets"}]
    /\ pc' = [pc EXCEPT ![p] = "subs"]
    /\ page' = [page EXCEPT ![p] = 1]
    /\ items' = [items EXCEPT ![p] = <<>>]     \* not read after the loop
    /\ calls' = <<>>
    /\ steps' = <<>>
    /\ UNCHANGED dvars
    /\ UNCHANGED <<subsFile, sessionFile, now, runs, active, server, result, known,
                   subscriptions, new, pending, whatsapp_buffer, loaded,
                   loadedSubs, subItems, fetched, devMsgs, busMsgs, due, skippedOld,
                   failures, guardAt, triedLogin, ticketSends, seenKnown>>

\* what page.evaluate gives _fetch_subscriptions_api: the script's object, or
\* an exception
SubsCalls == PageCalls \cup {[sent |-> <<>>, error |-> "exception"]}

\* One iteration of the loop of _fetch_subscriptions_api.  all_items: the
\* items of the pages before; call: this page's request; pg, tc: the items
\* and the totalCount of its response (the server reports that the
\* collection is complete with this page, or that it holds MaxSubs items).  ret: None (the function returns
\* None), "more" (next page) or "ok" (the function returns all_items).
subs_page_partial(all_items, call, pg, tc) ==
    IF call.error # None THEN [ret |-> "ok", all_items |-> all_items]
    ELSE LET all == all_items \o pg IN
         [ret |-> IF Len(pg) < PageSize \/ Len(all) >= tc THEN "ok" ELSE "more",
          all_items |-> all]

\* as the loop body, but putting the new page in front of the earlier ones
subs_page_prepend(all_items, call, pg, tc) ==
    IF call.error # None THEN [ret |-> None, all_items |-> <<>>]
    ELSE LET all == pg \o all_items IN
         [ret |-> IF Len(pg) < PageSize \/ Len(all) >= tc THEN "ok" ELSE "more",
          all_items |-> all]

\* as the loop body, but stopping only at a short page
subs_page_nototal(all_items, call, pg, tc) ==
    IF call.error # None THEN [ret |-> None, all_items |-> <<>>]
    ELSE LET all == all_items \o pg IN
         [ret |-> IF Len(pg) < PageSize THEN "ok" ELSE "more",
          all_items |-> all]

subs_page(all_items, call, pg, tc) ==
    IF call.error # None THEN [ret |-> None, all_items |-> <<>>]
    ELSE LET all == all_items \o pg IN
         [ret |-> IF Len(pg) < PageSize \/ Len(all) >= tc THEN "ok" ELSE "more",
          all_items |-> all]

\* the pages the server can answer with when n items were fetched before
Pages(n) ==
    SeqsUpTo(ServerSubs, IF MaxSubs - n < PageSize THEN MaxSubs - n ELSE PageSize)

\* _fetch_subscriptions_api: a page request fails, the function returns None
\* and run() skips the subscription block
SubsFetchFailed(p) ==
    /\ pc[p] = "subs"
    /\ \E call \in { c \in SubsCalls : c.error # None } :
         LET r == subs_page(subItems[p], call, <<>>, 0) IN
         /\ r.ret = None
         /\ subItems' = [subItems EXCEPT ![p] = r.all_items]
         /\ calls' = <<call>>
         /\ steps' = <<"api">>
         /\ UNCHANGED dvars
    /\ fetched' = [fetched EXCEPT ![p].subs = "none"]
    /\ pc' = [pc EXCEPT ![p] = "summary"]
    /\ UNCHANGED <<files, now, runs, active, server, result, known, subscriptions, items, new,
                   pending, whatsapp_buffer, page, loaded, loadedSubs, devMsgs,
                   busMsgs, wrote, due, skippedOld, failures, guardAt, triedLogin,
                   ticketSends, seenKnown>>

\* _fetch_subscriptions_api: the response (call, pg, tc) to the request for
\* page[p] arrives; the loop goes on with the next page or the function
\* returns the collection
SubsPageStep(p, call, pg, tc) ==
    LET r == subs_page(subItems[p], call, pg, tc) IN
    /\ r.ret # None
    /\ subItems' = [subItems EXCEPT ![p] = r.all_items]
    /\ calls' = <<call>>
    /\ steps' = <<"api">>
    /\ IF r.ret = "more"
       THEN /\ page' = [page EXCEPT ![p] = @ + 1]
            /\ pc' = pc
            /\ fetched' = fetched
       ELSE /\ page' = [page EXCEPT ![p] = 0]
            /\ pc' = [pc EXCEPT ![p] = "subsdiff"]
            /\ fetched' = [fetched EXCEPT ![p].subs =
                   IF call.error = None THEN "ok" ELSE "none"]
    /\ UNCHANGED <<files, now, runs, active, server, result, known, subscriptions, items, new,
                   pending, whatsapp_buffer, loaded, loadedSubs, devMsgs,
                   busMsgs, wrote, due, skippedOld, failures, guardAt, triedLogin,
                   ticketSends, seenKnown>>

\* a page of the collection ServerSubs arrives
FetchSubsPage(p) ==
    /\ pc[p] = "subs"
    /\ \E call \in SubsCalls :
       \E pg \in (IF call.error = None THEN Pages(Len(subItems[p])) ELSE {<<>>}) :
       \E tc \in (IF call.error = None THEN {Len(subItems[p]) + Len(pg), MaxSubs} ELSE {0}) :
         /\ SubsPageStep(p, call, pg, tc)
         /\ UNCHANGED dvars

\* run(): the subscription list arrived and the map is empty: store all, save
SubsFirstRun(p) ==
    /\ pc[p] = "subsdiff"
    /\ SubsCount(subscriptions[p]) = 0
    /\ subscriptions' = [subscriptions EXCEPT ![p] = StoreAll(@, subItems[p])]
    /\ subsFile' = SaveSubscriptions(subscriptions'[p])
    /\ wrote' = [wrote EXCEPT ![p] = @ \cup {"subs"}]
    /\ calls' = <<>>
    /\ steps' = <<>>
    /\ UNCHANGED dvars
    /\ pc' = [pc EXCEPT ![p] = "summary"]
    /\ UNCHANGED <<knownFile, sessionFile, now, runs, active, server, result, known, items, new,
                   pending, whatsapp_buffer, page, loaded, loadedSubs, subItems, fetched,
                   devMsgs, busMsgs, due, skippedOld, failures, guardAt, triedLogin,
                   ticketSends, seenKnown>>

\* run(): the subscription list arrived and the map is not empty: get_changes
SubsChanges(p) ==
    /\ pc[p] = "subsdiff"
    /\ SubsCount(subscriptions[p]) # 0
    /\ LET ch == get_changes(subscriptions[p], subItems[p]) IN
         /\ subscriptions' = [subscriptions EXCEPT ![p] = ch.subs]
         /\ pending' = [pending EXCEPT ![p] = PendingOf(ch)]
    /\ calls' = <<>>
    /\ steps' = <<>>
    /\ UNCHANGED dvars
    /\ pc' = [pc EXCEPT ![p] = IF pending'[p] = <<>> THEN "subsave" ELSE "subnotify"]
    /\ UNCHANGED <<files, now, runs, active, server, result, known, items, new,
                   whatsapp_buffer, page, loaded, loadedSubs, subItems, fetched, devMsgs,
                   busMsgs, wrote, due, skippedOld, failures, guardAt, triedLogin,
                   ticketSends, seenKnown>>

\* run(): one iteration of the expired / renewed / new-subscriber loops
NotifySub(p) ==
    /\ pc[p] = "subnotify"
    /\ pending[p] # <<>>
    /\ \E ok \in BOOLEAN :
         /\ busMsgs' = [busMsgs EXCEPT ![p] = Append(@, Head(pending[p]))]
         /\ whatsapp_buffer' = [whatsapp_buffer EXCEPT ![p] = Append(@, Head(pending[p]))]
         /\ failures' = [failures EXCEPT ![p] = Sent(p, ok)]
    /\ pending' = [pending EXCEPT ![p] = Tail(@)]
    /\ pc' = [pc EXCEPT ![p] = IF pending'[p] = <<>> THEN "subsave" ELSE "subnotify"]
    /\ calls' = <<>>
    /\ steps' = <<>>
    /\ UNCHANGED dvars
    /\ UNCHANGED <<files, now, runs, active, server, result, known, subscriptions, items, new,
                   page, loaded, loadedSubs, subItems, fetched, devMsgs, wrote, due,
                   skippedOld, guardAt, triedLogin, ticketSends, seenKnown>>

\* run(): self.subscription_state.save() after the loops
SaveSubs(p) ==
    /\ pc[p] = "subsave"
    /\ subsFile' = SaveSubscriptions(subscriptions[p])
    /\ wrote' = [wrote EXCEPT ![p] = @ \cup {"subs"}]
    /\ pc' = [pc EXCEPT ![p] = "summary"]
    /\ calls' = <<>>
    /\ steps' = <<>>
    /\ UNCHANGED dvars
    /\ UNCHANGED <<knownFile, sessionFile, now, runs, active, server, result, known,
                   subscriptions, items, new, pending, whatsapp_buffer, page, loaded,
                   loadedSubs, subItems, fetched, devMsgs, busMsgs, due, skippedOld,
                   failures, guardAt, triedLogin, ticketSends, seenKnown>>

\* run(): the run log and the run summary go to the developer, return True
Summary(p) ==
    /\ pc[p] = "summary"
    /\ devMsgs' = [devMsgs EXCEPT ![p] = @ \o <<"run_log", "summary">>]
    /\ pc' = [pc EXCEPT ![p] = "done"]
    /\ result' = [result EXCEPT ![p] = "True"]
    /\ calls' = <<>>
    /\ steps' = <<>>
    /\ UNCHANGED dvars
    /\ UNCHANGED <<files, now, runs, active, server, known, subscriptions, items, new, pending,
                   whatsapp_buffer, page, loaded, loadedSubs, subItems, fetched, busMsgs,
                   wrote, due, skippedOld, failures, guardAt, triedLogin,
                   ticketSends, seenKnown>>

\* The process is killed between two statements of run(): its memory is
\* gone, the files stay as the last completed write left them.  (A kill
\* inside a save() is KillInSave.)
KillStep(p) ==
    /\ Running(p)
    /\ pc' = [pc EXCEPT ![p] = "done"]
    /\ result' = [result EXCEPT ![p] = "killed"]
    /\ known' = [known EXCEPT ![p] = {}]
    /\ subscriptions' = [subscriptions EXCEPT ![p] = EmptySubs]
    /\ items' = [items EXCEPT ![p] = <<>>]
    /\ new' = [new EXCEPT ![p] = <<>>]
    /\ pending' = [pending EXCEPT ![p] = <<>>]
    /\ whatsapp_buffer' = [whatsapp_buffer EXCEPT ![p] = <<>>]
    /\ loaded' = [loaded EXCEPT ![p] = {}]
    /\ loadedSubs' = [loadedSubs EXCEPT ![p] = EmptySubs]
    /\ subItems' = [subItems EXCEPT ![p] = <<>>]
    /\ fetched' = [fetched EXCEPT ![p] = [tickets |-> None, subs |-> None]]
    /\ devMsgs' = [devMsgs EXCEPT ![p] = <<>>]
    /\ busMsgs' = [busMsgs EXCEPT ![p] = <<>>]
    /\ wrote' = [wrote EXCEPT ![p] = {}]
    /\ due' = [due EXCEPT ![p] = {}]
    /\ skippedOld' = [skippedOld EXCEPT ![p] = {}]
    /\ failures' = [failures EXCEPT ![p] = {}]
    /\ guardAt' = [guardAt EXCEPT ![p] = [last_run |-> 0, now |-> 0]]
    /\ page' = [page EXCEPT ![p] = 0]
    /\ calls' = <<>>
    /\ steps' = <<>>
    /\ triedLogin' = [triedLogin EXCEPT ![p] = FALSE]
    /\ UNCHANGED <<now, runs, active, server, ticketSends, seenKnown>>

Kill(p) == KillStep(p) /\ UNCHANGED files /\ UNCHANGED dvars

\* Time passes (sleeps, network waits, the pause between two triggers).
Tick ==
    /\ now < T0 + MaxTicks * TickSeconds
    /\ now' = now + TickSeconds
    /\ calls' = <<>>
    /\ steps' = <<>>
    /\ UNCHANGED dvars
    /\ UNCHANGED <<files, runs, active, server, local, hist, ticketSends, seenKnown>>

Next ==
    \/ \E p \in Procs : Construct(p)
    \/ \E p \in Procs : RunGuard(p)
    \/ \E p \in Procs : Fetch(p)
    \/ \E p \in Procs : FirstRun(p)
    \/ \E p \in Procs : FindNew(p)
    \/ \E p \in Procs : NotifyTicket(p)
    \/ \E p \in Procs : SaveTickets(p)
    \/ \E p \in Procs : SubsFetchFailed(p)
    \/ \E p \in Procs : FetchSubsPage(p)
    \/ \E p \in Procs : SubsFirstRun(p)
    \/ \E p \in Procs : SubsChanges(p)
    \/ \E p \in Procs : NotifySub(p)
    \/ \E p \in Procs : SaveSubs(p)
    \/ \E p \in Procs : Summary(p)
    \/ \E p \in Procs : Kill(p)
    \/ Tick

Spec == Init /\ [][Next]_vars

\* Two triggers that overlap, followed through the Run Guard and the ticket
\* phase up to the save() that writes last_run (line 957).  The statements
\* after it (subscriptions, summary) neither read nor write last_run.
NextOverlap ==
    \/ \E p \in Procs : Construct(p)
    \/ \E p \in Procs : RunGuard(p)
    \/ \E p \in Procs : Fetch(p)
    \/ \E p \in Procs : FirstRun(p)
    \/ \E p \in Procs : FindNew(p)
    \/ \E p \in Procs : NotifyTicket(p)
    \/ \E p \in Procs : SaveTickets(p)
    \/ \E p \in Procs : Kill(p)
    \/ Tick

SpecOverlap == InitOverlap /\ [][NextOverlap]_vars

\* ------------------------------------------- one scheduler, the Run Guard
\* a state file whose text json.loads rejects
Unparsable(f) == [f EXCEPT !.json = FALSE]

\* One scheduler, triggers one after the other, followed through the Run
\* Guard and the ticket phase as in NextOverlap.  The known-tickets file may
\* be missing, written by an earlier run, or left with a text that does not
\* parse (a write cut short, a hand edit).
InitGuard ==
    /\ knownFile \in
           {NoKnownFile}
           \cup { SaveKnown(k, T0 - d) : k \in EarlierKnown,
                                         d \in {2 * MIN_RUN_INTERVAL, EarlierRunAge} }
           \cup { Unparsable(SaveKnown(k, T0 - EarlierRunAge)) : k \in {{}, {"T3"}} }
    /\ subsFile = NoSubsFile
    /\ sessionFile \in BOOLEAN
    /\ InitRest
    /\ NoDispatch
    /\ NoAux
    /\ active = {1}
    /\ server = ServerTickets

\* fetch() is the run's first network activity: the time at which the run
\* had passed the Run Guard goes into the history
FetchTimed(p) ==
    /\ FetchStep(p)
    /\ passes' = Append(passes, guardAt[p].now)
    /\ UNCHANGED <<dispatch, outbox, pages, cut, form, bot>>

NextGuard ==
    \/ \E p \in Procs : Construct(p)
    \/ \E p \in Procs : RunGuard(p)
    \/ \E p \in Procs : FetchTimed(p)
    \/ \E p \in Procs : FirstRun(p)
    \/ \E p \in Procs : FindNew(p)
    \/ \E p \in Procs : NotifyTicket(p)
    \/ \E p \in Procs : SaveTickets(p)
    \/ \E p \in Procs : Kill(p)
    \/ Tick

SpecGuard == InitGuard /\ [][NextGuard]_vars

\* ------------------------------------ _fetch_subscriptions_api on its own
\* the largest page number the server is asked for
MaxPages == 3

\* run() has just called _fetch_subscriptions_api: page = 1, nothing fetched
InitPages ==
    /\ knownFile = NoKnownFile
    /\ subsFile = NoSubsFile
    /\ sessionFile = TRUE
    /\ InitMemory
    /\ pc = [p \in Procs |-> IF p = 1 THEN "subs" ELSE "idle"]
    /\ page = [p \in Procs |-> IF p = 1 THEN 1 ELSE 0]
    /\ NoDispatch
    /\ NoAux
    /\ active = {}
    /\ server = {}

\* the subscriptions the pages are made of
PageSubs == { x \in ServerSubs : x.id # "" /\ x.status \in {"Active", "Expired"} /\
                                 (x.id = "S1" <=> x.status = "Expired") }

\* The server answers the request for page[p] with any page of up to
\* PageSize items and any totalCount (0 when the member is missing, up to
\* one more than the call has fetched: a collection that grows while it is
\* read).  The response goes into the history.
ServeAnyPage(p) ==
    /\ pc[p] = "subs"
    /\ page[p] <= MaxPages
    /\ \E call \in { c \in SubsCalls : c.error = None } :
       \E pg \in SeqsUpTo(PageSubs, PageSize) :
       \E tc \in 0..(Len(subItems[p]) + Len(pg) + 1) :
         /\ SubsPageStep(p, call, pg, tc)
         /\ pages' = Append(pages, [number |-> page[p], items |-> pg, totalCount |-> tc])
    /\ UNCHANGED <<dispatch, outbox, passes, cut, form, bot>>

NextPages ==
    \/ \E p \in Procs : ServeAnyPage(p)
    \/ \E p \in Procs : SubsFetchFailed(p)

SpecPages == InitPages /\ [][NextPages]_vars


\* ------------------------------------------------ a kill inside a save()
\* Path.write_text opens the file for writing, which empties it, and then
\* writes the text: there is no temporary file and no rename.  What a kill
\* between the two leaves: an empty file, or the text cut after the list
\* that comes first in it.  json.loads accepts neither.
CutKnown(f) ==
    { [exists |-> TRUE, json |-> FALSE, tickets |-> k, last_run |-> 0] :
          k \in {{}, f.tickets} }
CutSubs(f) ==
    { [exists |-> TRUE, json |-> FALSE, subscriptions |-> m] :
          m \in {EmptySubs, f.subscriptions} }

\* the save() the process is about to call writes the known-tickets file:
\* line 909 on the first run, line 957 after the ticket loop
SavingKnown(p) ==
    \/ pc[p] = "tickets" /\ IsFirstRun(known[p])
    \/ pc[p] = "save"
KnownToSave(p) ==
    IF pc[p] = "tickets" THEN known[p] \cup IdsOf(items[p]) ELSE known[p]

\* the save() the process is about to call writes the subscriptions file:
\* line 981 on the first subscription run, after the loops otherwise
SavingSubs(p) ==
    \/ pc[p] = "subsdiff" /\ SubsCount(subscriptions[p]) = 0
    \/ pc[p] = "subsave"
SubsToSave(p) ==
    IF pc[p] = "subsdiff" THEN StoreAll(subscriptions[p], subItems[p])
    ELSE subscriptions[p]

\* The process is killed inside the save() it has reached.  The history
\* keeps what the file held before, what save() was writing and what the
\* kill left.
KillInSave(p) ==
    /\ KillStep(p)
    /\ \/ /\ SavingKnown(p)
          /\ \E left \in CutKnown(SaveKnown(KnownToSave(p), now)) :
               /\ knownFile' = left
               /\ cut' = {[name |-> "tickets", old |-> knownFile,
                           new |-> SaveKnown(KnownToSave(p), now), left |-> left]}
          /\ UNCHANGED <<subsFile, sessionFile>>
       \/ /\ SavingSubs(p)
          /\ \E left \in CutSubs(SaveSubscriptions(SubsToSave(p))) :
               /\ subsFile' = left
               /\ cut' = {[name |-> "subscriptions", old |-> subsFile,
                           new |-> SaveSubscriptions(SubsToSave(p)), left |-> left]}
          /\ UNCHANGED <<knownFile, sessionFile>>
    /\ UNCHANGED <<dispatch, outbox, passes, pages, form, bot>>

\* One scheduler, whole runs, kills between statements and inside save().
\* The files start absent or as a completed save() of an earlier run wrote
\* them.
InitSave ==
    /\ knownFile \in {NoKnownFile} \cup
           { SaveKnown(k, T0 - 2 * MIN_RUN_INTERVAL) : k \in EarlierKnown }
    /\ subsFile \in {NoSubsFile} \cup
           { SaveSubscriptions(m) : m \in { x \in StoredMaps : SubsCount(x) = 1 } }
    /\ (subsFile.exists => knownFile.tickets # {})
    /\ sessionFile = TRUE
    /\ InitRest
    /\ NoDispatch
    /\ NoAux
    /\ active = {1}
    /\ server = ServerTickets

NextSave ==
    \/ \E p \in Procs : Construct(p)
    \/ \E p \in Procs : RunGuard(p)
    \/ \E p \in Procs : Fetch(p)
    \/ \E p \in Procs : FirstRun(p)
    \/ \E p \in Procs : FindNew(p)
    \/ \E p \in Procs : NotifyTicket(p)
    \/ \E p \in Procs : SaveTickets(p)
    \/ \E p \in Procs : SubsFetchFailed(p)
    \/ \E p \in Procs : FetchSubsPage(p)
    \/ \E p \in Procs : SubsFirstRun(p)
    \/ \E p \in Procs : SubsChanges(p)
    \/ \E p \in Procs : NotifySub(p)
    \/ \E p \in Procs : SaveSubs(p)
    \/ \E p \in Procs : Summary(p)
    \/ \E p \in Procs : Kill(p)
    \/ \E p \in Procs : KillInSave(p)
    \/ Tick

SpecSave == InitSave /\ [][NextSave]_vars

\* ------------------------------------------------------------- auto_login
\* the selector lists of auto_login, by the name of what they select
username_selectors == <<"formcontrolname=Username", "formcontrolname=username", "#mat-input-0">>
password_selectors == <<"formcontrolname=Password", "formcontrolname=password", "#mat-input-1",
                        "type=password">>
submit_selectors == <<"button.mat-raised-button", "button.btn-xl", "button:has-text">>

FormSteps == <<"username", "password", "submit">>
SelectorsOf(step) ==
    IF step = "username" THEN username_selectors
    ELSE IF step = "password" THEN password_selectors
    ELSE submit_selectors

Range(q) == { q[i] : i \in 1..Len(q) }

\* `for selector in selectors: try: ...; break; except: continue`: the
\* selectors the loop tries on a page where those in `works` work, in order
\* up to the first that works, and that one (None when the list runs out)
TrySelectors(selectors, works) ==
    LET hits == { i \in 1..Len(selectors) : selectors[i] \in works }
        k == IF hits = {} THEN 0 ELSE CHOOSE i \in hits : \A j \in hits : i <= j
    IN  [tried |-> SubSeq(selectors, 1, IF k = 0 THEN Len(selectors) ELSE k),
         used |-> IF k = 0 THEN None ELSE selectors[k]]

\* the attempts of one step, as the history keeps them
Attempts(step, r) == [i \in 1..Len(r.tried) |-> [step |-> step, selector |-> r.tried[i]]]

\* auto_login is called: the credentials may be unset, the navigation to
\* the login page may raise or end on the dashboard, the page has any
\* markup, the form may be accepted, storage_state may raise
InitLogin ==
    /\ knownFile = NoKnownFile
    /\ subsFile = NoSubsFile
    /\ sessionFile = FALSE
    /\ InitRest
    /\ NoDispatch
    /\ passes = <<>> /\ pages = <<>> /\ cut = {} /\ bot = NoBot
    /\ active = {}
    /\ server = {}
    /\ form \in { [FormStart EXCEPT !.pc = "start", !.creds = c, !.nav = n, !.accepted = a,
                                 !.store = st,
                                 !.markup = [username |-> u, password |-> pw, submit |-> sb]] :
                    c \in BOOLEAN, n \in {"exception", "dashboard", "login"},
                    a \in BOOLEAN, st \in BOOLEAN,
                    u \in SUBSET Range(username_selectors),
                    pw \in SUBSET Range(password_selectors),
                    sb \in SUBSET Range(submit_selectors) }

LoginReturns(f, value) == [f EXCEPT !.pc = "done", !.result = value]

OnlyForm ==
    UNCHANGED <<files, now, runs, active, server, local, hist, calls, steps, dispatch,
                outbox, passes, pages, cut, bot, ticketSends, seenKnown>>

\* lines 59-74: the credentials check, page.goto, the 'already on the
\* dashboard' check
LoginStart ==
    /\ form.pc = "start"
    /\ form' = IF ~form.creds THEN LoginReturns(form, "False")
               ELSE IF form.nav = "exception" THEN LoginReturns(form, "False")
               ELSE IF form.nav = "dashboard" THEN LoginReturns(form, "True")
               ELSE [form EXCEPT !.pc = "username"]
    /\ OnlyForm

\* lines 76-97: the username loop, and `if not username_filled: return False`
FillUsername ==
    /\ form.pc = "username"
    /\ LET r == TrySelectors(username_selectors, form.markup.username)
           f == [form EXCEPT !.tried = @ \o Attempts("username", r)] IN
       form' = IF r.used = None THEN LoginReturns(f, "False")
               ELSE [f EXCEPT !.pc = "password", !.filled = @ \cup {"username"}]
    /\ OnlyForm

\* lines 99-112: the password loop; nothing is read after it
FillPassword ==
    /\ form.pc = "password"
    /\ LET r == TrySelectors(password_selectors, form.markup.password) IN
       form' = [form EXCEPT !.tried = @ \o Attempts("password", r),
                            !.pc = "submit",
                            !.filled = IF r.used = None THEN @ ELSE @ \cup {"password"}]
    /\ OnlyForm

\* lines 114-126: the submit loop; nothing is read after it
ClickSubmit ==
    /\ form.pc = "submit"
    /\ LET r == TrySelectors(submit_selectors, form.markup.submit) IN
       form' = [form EXCEPT !.tried = @ \o Attempts("submit", r),
                            !.pc = "wait",
                            !.filled = IF r.used = None THEN @ ELSE @ \cup {"submit"}]
    /\ OnlyForm

\* lines 128-141: wait_for_url('**/dashboard') and storage_state in one
\* try; the dashboard comes only when a filled form was sent and accepted
WaitForDashboard ==
    /\ form.pc = "wait"
    /\ LET reached == form.accepted /\ form.filled = Range(FormSteps) IN
       form' = IF reached /\ form.store
               THEN [LoginReturns(form, "True") EXCEPT !.saved = TRUE]
               ELSE LoginReturns(form, "False")
    /\ OnlyForm

NextLogin ==
    \/ LoginStart
    \/ FillUsername
    \/ FillPassword
    \/ ClickSubmit
    \/ WaitForDashboard

SpecLogin == InitLogin /\ [][NextLogin]_vars

\* ---------------------------------------------------------- settings bot
\* src/settings_bot.py.  bot.SETTINGS_FILE is settings.json in the bot's
\* checkout (its working copy; the handler commits what it writes, so it is
\* also the checkout's HEAD), bot.origin the copy the checkout last got from
\* or pushed to GitHub, bot.github the copy GitHub holds.
\* clicks followed
MaxClicks == 1

AllOn == [k \in SETTINGS_MAP |-> "true"]
Settings(d) == [exists |-> TRUE, d |-> d]

\* `is_on = settings.get(key, True)`
is_on(d, key) == d[key] # "false"
\* `settings[target_key] = not settings.get(target_key, True)`
Toggle(d, key) == [d EXCEPT ![key] = IF is_on(d, key) THEN "false" ELSE "true"]

\* load_settings_local: the file's dict, every key on when there is no file
load_settings_local(f) == IF f.exists THEN f.d ELSE AllOn
\* load_settings: GitHub's copy when fetch_from_github returns a non-empty
\* dict (reach: the request is made and answered), the local file otherwise
load_settings(f, gh, reach) ==
    IF reach /\ gh.exists /\ gh.d # NoSettings.d THEN gh.d ELSE load_settings_local(f)

\* callback data, split at ':'
Callbacks ==
    {<<"ignore">>, <<"refresh">>, <<"forced_sync">>, <<"toggle", "other">>}
        \cup { <<"toggle", k>> : k \in SETTINGS_MAP }
KnownToggle(data) == data[1] = "toggle" /\ data[2] \in SETTINGS_MAP

\* the SECURITY CHECK of button_click: the user is in allow_list, or the
\* chat is a group and get_chat_member reports a creator or administrator
\* (status "error": get_chat_member raised)
Allowed_anyone(user, chat, status, allow) == TRUE
Allowed(user, chat, status, allow) ==
    \/ user \in allow
    \/ chat \in {"group", "supergroup"} /\ status \in {"creator", "administrator"}

\* what `git pull --rebase` makes of the working copy: the local change
\* (mine against base) replayed on GitHub's copy, key by key
Rebase(base, mine, theirs) ==
    [exists |-> IF mine.exists # base.exists THEN mine.exists ELSE theirs.exists,
     d |-> [k \in SETTINGS_MAP |->
               IF mine.d[k] # base.d[k] THEN mine.d[k] ELSE theirs.d[k]]]

\* `git pull --rebase` (check=True) and, for sync_to_github, `git push`
\* (check=True) after `git add` (check=True, fails when there is no file):
\* the working copy, the checkout's origin and GitHub's copy afterwards
Pull(b, f, pullOk) ==
    IF pullOk
    THEN [b EXCEPT !.SETTINGS_FILE = Rebase(b.origin, f, b.github), !.origin = b.github]
    ELSE [b EXCEPT !.SETTINGS_FILE = f]
sync_to_github(b, f, pullOk, pushOk) ==
    IF ~f.exists \/ ~pullOk THEN [b EXCEPT !.SETTINGS_FILE = f]
    ELSE LET pulled == Pull(b, f, TRUE) IN
         IF pushOk THEN [pulled EXCEPT !.github = pulled.SETTINGS_FILE,
                                       !.origin = pulled.SETTINGS_FILE]
         ELSE pulled

\* The bot runs in a checkout that is level with GitHub (no settings.json
\* yet, or one that earlier clicks wrote) or ahead of it (the push of an
\* earlier toggle of notify_tickets failed).  ADMIN_CHAT_ID and DEV_CHAT_ID
\* may be unset.
InitBot ==
    /\ knownFile = NoKnownFile
    /\ subsFile = NoSubsFile
    /\ sessionFile = FALSE
    /\ InitRest
    /\ NoDispatch
    /\ passes = <<>> /\ pages = <<>> /\ cut = {} /\ form = NoForm
    /\ active = {}
    /\ server = {}
    /\ \E f \in {NoSettings, Settings(AllOn),
                 Settings([NoSettings.d EXCEPT !["notify_expired"] = "false"])} :
       \E allow \in SUBSET {"owner", "dev"} :
       \E ahead \in (IF f.exists THEN BOOLEAN ELSE {FALSE}) :
         bot = [BotStart EXCEPT
                  !.SETTINGS_FILE = IF ahead THEN Settings(Toggle(f.d, "notify_tickets")) ELSE f,
                  !.origin = f, !.github = f, !.allow_list = allow]

OnlyBot ==
    UNCHANGED <<files, now, runs, active, server, local, hist, calls, steps, dispatch,
                outbox, passes, pages, cut, form, ticketSends, seenKnown>>

\* button_click, the whole handler.  The keyboard it redraws is not part of
\* the state.
\*   user, chat, status: who clicked, where, and what get_chat_member says
\*   data: the callback data; acked: query.answer(...) at step 1 returns
\*   (it raises on a query that is too old, which ends the handler)
\*   reach: fetch_from_github gets GitHub's copy
\*   pullOk, pushOk: how the git commands end
button_click(user, chat, status, data, acked, reach, pullOk, pushOk) ==
    LET f == bot.SETTINGS_FILE
        allowed == Allowed(user, chat, status, bot.allow_list)
        proceeds == allowed /\ data # <<"ignore">> /\ acked
        settings == load_settings(f, bot.github, reach)
        writes == proceeds /\ KnownToggle(data)
        written == IF writes THEN Settings(Toggle(settings, data[2])) ELSE f
        after == IF ~proceeds \/ data = <<"refresh">> THEN bot
                 ELSE IF data = <<"forced_sync">> THEN Pull(bot, f, pullOk)
                 ELSE sync_to_github(bot, written, pullOk, pushOk)
    IN  bot' = [after EXCEPT
                  !.clicks = @ + 1,
                  !.click = [user |-> user, chat |-> chat, status |-> status, data |-> data,
                             before |-> f, loaded |-> settings,
                             written |-> writes, wrote |-> IF writes THEN written ELSE NoSettings]]

ButtonClick ==
    /\ bot.clicks < MaxClicks
    /\ \E user \in {"owner", "dev", "other"}, chat \in {"private", "group"} :
       \E status \in (IF user \notin bot.allow_list /\ chat = "group"
                      THEN {"creator", "administrator", "member", "error"} ELSE {None}) :
       \E data \in Callbacks :
       LET passes_check == Allowed(user, chat, status, bot.allow_list) /\ data # <<"ignore">> IN
       \E acked \in (IF passes_check THEN BOOLEAN ELSE {FALSE}) :
       LET proceeds == passes_check /\ acked
           git == proceeds /\ data # <<"refresh">> IN
       \E reach \in (IF proceeds THEN BOOLEAN ELSE {FALSE}) :
       \E pullOk \in (IF git THEN BOOLEAN ELSE {FALSE}) :
       \E pushOk \in (IF git /\ pullOk /\ data # <<"forced_sync">> THEN BOOLEAN ELSE {FALSE}) :
         button_click(user, chat, status, data, acked, reach, pullOk, pushOk)
    /\ OnlyBot

\* settings.json is changed on GitHub from elsewhere (an edit on the site,
\* another checkout's push) while the bot's checkout is level with it: one
\* key is switched
RemoteEdit ==
    /\ bot.clicks < MaxClicks
    /\ bot.github.exists
    /\ bot.github = bot.origin
    /\ \E k \in {"notify_tickets", "notify_renewed"} :
         bot' = [bot EXCEPT !.github = Settings(Toggle(bot.github.d, k))]
    /\ OnlyBot

NextBot ==
    \/ ButtonClick
    \/ RemoteEdit

SpecBot == InitBot /\ [][NextBot]_vars

\* ------------------------------------------------ notification dispatcher
\* The texts run() builds: the four business notifications (named as in
\* busMsgs) and the four system messages (named as in devMsgs).
BusinessTexts == {"ticket", "expired", "renewed", "new_sub"}
SystemTexts == {"session_expired", "started", "run_log", "summary"}

\* The phrases Telegram.send looks for, and the texts that contain them:
\* format() writes the SLA-alert title, format_expired, format_renewed and
\* format_new_subscriber theirs; the system messages contain none of them.
Phrases(text) ==
    CASE text = "ticket"  -> {"sla_alert"}
      [] text = "expired" -> {"subscription_expired"}
      [] text = "renewed" -> {"renewed"}
      [] text = "new_sub" -> {"new_subscriber"}
      [] OTHER -> {}

\* settings.json as settings_bot.py writes it: category key -> bool, a key
\* may be absent; EmptyMap is {}
SettingKeys == {"notify_tickets", "notify_expired", "notify_renewed", "notify_new_sub"}
EmptyMap == [k \in SettingKeys |-> "missing"]
SettingsMaps ==
    { EmptyMap,
      [k \in SettingKeys |-> "true"],
      [k \in SettingKeys |-> "false"],
      [k \in SettingKeys |-> IF k = "notify_expired" THEN "false" ELSE "true"],
      [k \in SettingKeys |-> IF k = "notify_expired" THEN "true" ELSE "missing"] }

\* settings.get(key, True), read as a condition
Get(settings, key) == settings[key] # "false"

\* What a dispatch meets.  gh_token: GITHUB_TOKEN is set; remote: what the
\* raw file request would answer (status "timeout": the request raises);
\* local: the settings.json next to the program.
Envs ==
    { e \in [gh_token : BOOLEAN,
             remote : [status : {"200", "404", "timeout"}, body : SettingsMaps],
             local : [exists : BOOLEAN, body : SettingsMaps]] :
        /\ (e.remote.status # "200" => e.remote.body = EmptyMap)
        /\ (~e.local.exists => e.local.body = EmptyMap) }

\* Telegram.__init__: enabled, group_chat_id, dev_enabled
Configs == [enabled : BOOLEAN, group_chat_id : BOOLEAN, dev_enabled : BOOLEAN]

\* Names that are bound in the frame of Telegram.send when line 327 runs.
\* `import aiohttp` at line 359 makes aiohttp a local name of the whole
\* function, and the module does not import it either: at line 327 it is
\* unbound.
SendLocalsAt327 == {"self", "text", "settings", "gh_token", "api_url", "headers"}

\* Telegram.send, lines 316-343: the settings the dispatch works with
LoadSettings(env) ==
    LET fallback == IF env.local.exists THEN env.local.body ELSE EmptyMap IN
    IF ~env.gh_token
    THEN fallback                        \* settings = {}: line 335
    ELSE IF "aiohttp" \notin SendLocalsAt327
    THEN fallback                        \* UnboundLocalError: lines 338-343
    ELSE IF env.remote.status = "timeout"
    THEN fallback                        \* lines 338-343
    ELSE IF env.remote.status = "200" /\ env.remote.body # EmptyMap
    THEN env.remote.body
    ELSE fallback                        \* line 335

\* Telegram.send, lines 345-357: the elif chain over the phrases
notify_group(text, settings) ==
    IF "sla_alert" \in Phrases(text) THEN Get(settings, "notify_tickets")
    ELSE IF "subscription_expired" \in Phrases(text) THEN Get(settings, "notify_expired")
    ELSE IF "renewed" \in Phrases(text) THEN Get(settings, "notify_renewed")
    ELSE IF "new_subscriber" \in Phrases(text) THEN Get(settings, "notify_new_sub")
    ELSE TRUE

\* Telegram.send.  fail: the audiences whose sendMessage request raises.
\* posts: the requests made, in order; both are made in one try block.
send_gated(text, cfg, env, fail) ==
    IF ~cfg.enabled THEN [settings |-> EmptyMap, posts |-> <<>>]
    ELSE LET settings == LoadSettings(env)
             ng == notify_group(text, settings) IN
         [settings |-> settings,
          posts |-> IF ~ng THEN <<>>
                    ELSE IF "primary" \in fail \/ ~cfg.group_chat_id THEN <<"primary">>
                    ELSE <<"primary", "group">>]

send(text, cfg, env, fail) ==
    IF ~cfg.enabled THEN [settings |-> EmptyMap, posts |-> <<>>]
    ELSE LET settings == LoadSettings(env)
             ng == notify_group(text, settings) IN
         [settings |-> settings,
          posts |-> IF "primary" \in fail THEN <<"primary">>
                    ELSE IF cfg.group_chat_id /\ ng THEN <<"primary", "group">>
                    ELSE <<"primary">>]

\* Telegram.send_to_dev
send_to_dev(text, cfg, fail) ==
    IF ~cfg.dev_enabled THEN <<>> ELSE <<"dev">>

\* Telegram.send_to_all: send, then send_to_dev, whatever send returned
send_to_all(text, cfg, env, fail) ==
    LET r == send(text, cfg, env, fail) IN
    [settings |-> r.settings, posts |-> r.posts \o send_to_dev(text, cfg, fail)]

\* run() and fetch(): the Telegram method each text is handed to
Sender_all(text) == "send_to_all"
Sender(text) ==
    IF text \in SystemTexts THEN "send_to_dev" ELSE "send_to_all"

\* run(): the messages handed to WhatsApp.send, send_ticket or send_template.
\* The texts are appended to whatsapp_buffer, which no statement reads;
\* the three methods have no caller.
WhatsAppSent(p) == {}

DispatchInputs ==
    [text : BusinessTexts \cup SystemTexts, cfg : Configs, env : Envs,
     fail : SUBSET {"primary", "group", "dev"}]

\* One text is handed to Telegram, in any configuration and environment.
InitDispatch ==
    /\ knownFile = NoKnownFile
    /\ subsFile = NoSubsFile
    /\ sessionFile = TRUE
    /\ InitRest
    /\ NoAux
    /\ active = {}
    /\ server = {}
    /\ dispatch \in DispatchInputs
    /\ outbox = [done |-> FALSE, settings |-> EmptyMap, posts |-> <<>>]

\* a business notification: telegram.send_to_all(text)
Deliver ==
    /\ dispatch.text # None
    /\ ~outbox.done
    /\ Sender(dispatch.text) = "send_to_all"
    /\ LET r == send_to_all(dispatch.text, dispatch.cfg, dispatch.env, dispatch.fail) IN
       outbox' = [done |-> TRUE, settings |-> r.settings, posts |-> r.posts]
    /\ UNCHANGED <<files, now, runs, active, server, local, hist, calls, steps,
                   dispatch, aux, ticketSends, seenKnown>>

\* a system message: telegram.send_to_dev(text)
DeliverDev ==
    /\ dispatch.text # None
    /\ ~outbox.done
    /\ Sender(dispatch.text) = "send_to_dev"
    /\ outbox' = [done |-> TRUE, settings |-> EmptyMap,
                  posts |-> send_to_dev(dispatch.text, dispatch.cfg, dispatch.fail)]
    /\ UNCHANGED <<files, now, runs, active, server, local, hist, calls, steps,
                   dispatch, aux, ticketSends, seenKnown>>

NextDispatch == Deliver \/ DeliverDev

SpecDispatch == InitDispatch /\ [][NextDispatch]_vars


\* ================================================================= claims
TicketMsgs(p) ==
    { busMsgs[p][k].id : k \in { j \in 1..Len(busMsgs[p]) : busMsgs[p][j].cat = "ticket" } }

CountMsg(p, cat, i) ==
    Cardinality({ k \in 1..Len(busMsgs[p]) : busMsgs[p][k] = [cat |-> cat, id |-> i] })

MsgsAbout(p, i) ==
    { k \in 1..Len(busMsgs[p]) : busMsgs[p][k].id = i /\ busMsgs[p][k].cat # "ticket" }

CountDev(p, m) == Cardinality({ k \in 1..Len(devMsgs[p]) : devMsgs[p][k] = m })

Occurrences(p, i) == { k \in 1..Len(subItems[p]) : SubId(subItems[p][k]) = i }

\* the fetched list reports subscription i, and in status st at every occurrence
FetchedAs(p, i, st) ==
    /\ Occurrences(p, i) # {}
    /\ \A k \in Occurrences(p, i) : Normalize(subItems[p][k].status) = st

Finished(p) == pc[p] = "done" /\ result[p] \in {"True", "False", "exception"}

C2_FreshNewTicketsSent ==
    \A p \in Procs :
        (Finished(p) /\ loaded[p] # {} /\ fetched[p].tickets = "ok")
            => due[p] \subseteq TicketMsgs(p)

\* C4: a displayId that some starting run found in the known-tickets file
\* never reaches the dispatch statement and is never notified, in that run
\* or in a later one.
C4_KnownNeverNotified ==
    \A p \in Procs : (due[p] \cup TicketMsgs(p)) \cap seenKnown = {}

\* a run that loaded T3 and T2 fetched T2 again and went through the diff
C4_Witness ==
    /\ pc[1] = "save"
    /\ {"T2", "T3"} \subseteq loaded[1]
    /\ "T2" \in IdsOf(items[1])
    /\ "T2" \notin due[1]

\* C5: a run that loaded an empty known set and whose ticket fetch
\* succeeded ends having sent no business notification, with every fetched
\* displayId in the known-tickets file and exactly one 'started' message
\* (and nothing else) sent to the developer.
C5_FirstRun ==
    \A p \in Procs :
        (Finished(p) /\ loaded[p] = {} /\ fetched[p].tickets = "ok")
            => /\ busMsgs[p] = <<>>
               /\ IdsOf(items[p]) \subseteq knownFile.tickets
               /\ devMsgs[p] = <<"started">>

C5_Witness ==
    /\ Finished(1) /\ loaded[1] = {} /\ fetched[1].tickets = "ok"
    /\ IdsOf(items[1]) = {"T1", "T2"}
    /\ knownFile.tickets = {"T1", "T2"}
    /\ devMsgs[1] = <<"started">>

\* C6: when a run has ended, every new ticket that its age filter skipped
\* is in the known-tickets file and has not been notified.
C6_OldTicketRecorded ==
    \A p \in Procs :
        Finished(p) =>
            /\ skippedOld[p] \subseteq knownFile.tickets
            /\ skippedOld[p] \cap TicketMsgs(p) = {}

\* C7: a run in which formatting or sending a business notification failed
\* still ends normally, having written the state files and sent the summary.
C7_FailureNeverAborts ==
    \A p \in Procs :
        (pc[p] = "done" /\ failures[p] # {})
            => /\ result[p] = "True"
               /\ "tickets" \in wrote[p]
               /\ (fetched[p].subs = "ok" => "subs" \in wrote[p])
               /\ CountDev(p, "summary") = 1

\* C8: a run whose guard read a last_run less than 300 s before the clock
\* is over, returned True, launched no browser, wrote no file and sent no
\* message.
C8_GuardSkips ==
    \A p \in Procs :
        (guardAt[p].last_run > 0 /\ guardAt[p].now - guardAt[p].last_run < MIN_RUN_INTERVAL)
            => /\ pc[p] = "done"
               /\ result[p] = "True"
               /\ wrote[p] = {}
               /\ devMsgs[p] = <<>>
               /\ busMsgs[p] = <<>>

\* the earlier run was EarlierRunAge seconds ago
C8_Witness ==
    /\ pc[1] = "done" /\ result[1] = "True"
    /\ guardAt[1] = [last_run |-> T0 - EarlierRunAge, now |-> T0]
    /\ wrote[1] = {}

PastGuard(p) == pc[p] \notin {"idle", "guard", "done"}

\* C9: of two overlapping triggers at most one is past the Run Guard.
C9_AtMostOnePastGuard == ~(PastGuard(1) /\ PastGuard(2))

\* C9 as amended: a trigger gets past the Run Guard only when the last_run
\* it read is absent or at least 300 s old.
C9_PassOnlyWhenStale ==
    \A p \in Procs :
        pc[p] = "fetch" =>
            \/ guardAt[p].last_run = 0
            \/ guardAt[p].now - guardAt[p].last_run >= MIN_RUN_INTERVAL

\* both triggers are past the guard, one of them having just passed it
\* while the other was already in its ticket phase
C9_Witness ==
    /\ pc[1] = "loop" /\ pc[2] = "fetch"
    /\ guardAt[2].last_run > 0
    /\ guardAt[2].now - guardAt[2].last_run >= MIN_RUN_INTERVAL

\* C10: a run that loaded a subscription as active and fetched it as
\* expired has, when it ends, sent exactly one 'expired' notification and
\* nothing else about it, and the file holds expired; a run that loaded it
\* as expired and fetched it as expired sends nothing about it.
C10_ActiveToExpired ==
    \A p \in Procs : \A i \in SubIds :
        (Finished(p) /\ fetched[p].subs = "ok" /\ FetchedAs(p, i, "expired"))
            => /\ loadedSubs[p][i] = "active" =>
                    /\ CountMsg(p, "expired", i) = 1
                    /\ Cardinality(MsgsAbout(p, i)) = 1
                    /\ subsFile.subscriptions[i] = "expired"
               /\ loadedSubs[p][i] = "expired" =>
                    /\ MsgsAbout(p, i) = {}
                    /\ subsFile.subscriptions[i] = "expired"

C10_Witness ==
    /\ Finished(1) /\ fetched[1].subs = "ok"
    /\ loadedSubs[1]["S1"] = "active"
    /\ subItems[1] = <<[id |-> "S1", status |-> "Expired"], [id |-> "S2", status |-> "Active"]>>
    /\ CountMsg(1, "expired", "S1") = 1
    /\ subsFile.subscriptions["S1"] = "expired"

\* C11: a run that loaded a subscription as expired and fetched it as active
\* has, when it ends, sent exactly one 'renewed' notification and nothing
\* else about it, and the file holds active.
C11_ExpiredToActive ==
    \A p \in Procs : \A i \in SubIds :
        (/\ Finished(p) /\ fetched[p].subs = "ok"
         /\ loadedSubs[p][i] = "expired" /\ FetchedAs(p, i, "active"))
            => /\ CountMsg(p, "renewed", i) = 1
               /\ Cardinality(MsgsAbout(p, i)) = 1
               /\ subsFile.subscriptions[i] = "active"

C11_Witness ==
    /\ Finished(1) /\ fetched[1].subs = "ok"
    /\ loadedSubs[1]["S1"] = "expired"
    /\ subItems[1] = <<[id |-> "S1", status |-> "Active"]>>
    /\ busMsgs[1] = <<[cat |-> "renewed", id |-> "S1"]>>
    /\ subsFile.subscriptions["S1"] = "active"

\* C12: in a run whose subscription fetch succeeded, every fetched id that
\* the loaded map did not hold got exactly one 'new subscriber'
\* notification and no 'expired' or 'renewed' notification.
C12_NewSubscriberOnce ==
    \A p \in Procs : \A i \in SubIds :
        (/\ Finished(p) /\ fetched[p].subs = "ok"
         /\ loadedSubs[p][i] = None /\ Occurrences(p, i) # {})
            => /\ CountMsg(p, "new_sub", i) = 1
               /\ CountMsg(p, "expired", i) = 0
               /\ CountMsg(p, "renewed", i) = 0

NormStatuses == { Normalize(s) : s \in RawStatuses }
AlertPairs == { <<"active", "expired">>, <<"expired", "active">> }
TransitionMsgs(p, i) ==
    { k \in 1..Len(busMsgs[p]) :
        busMsgs[p][k].id = i /\ busMsgs[p][k].cat \in {"expired", "renewed"} }

\* C13: a run that loaded a subscription with one status and fetched it
\* with another, the pair being neither active->expired nor
\* expired->active, sends nothing about it and the file holds the new status.
C13_OtherChangesSilent ==
    \A p \in Procs : \A i \in SubIds : \A st \in NormStatuses :
        (/\ Finished(p) /\ fetched[p].subs = "ok"
         /\ loadedSubs[p][i] # None /\ FetchedAs(p, i, st)
         /\ st # loadedSubs[p][i] /\ <<loadedSubs[p][i], st>> \notin AlertPairs)
            => /\ MsgsAbout(p, i) = {}
               /\ subsFile.subscriptions[i] = st

\* active -> an unrecognised status
C13_Witness ==
    /\ Finished(1) /\ fetched[1].subs = "ok"
    /\ loadedSubs[1]["S1"] = "active"
    /\ subItems[1] = <<[id |-> "S1", status |-> "Suspended"]>>
    /\ busMsgs[1] = <<>>
    /\ subsFile.subscriptions["S1"] = "suspended"

\* C14: a transition notification is sent about a fetched subscription if
\* and only if the loaded map held it with a status other than the fetched one.
C14_TransitionIffChanged ==
    \A p \in Procs : \A i \in SubIds : \A st \in NormStatuses :
        (Finished(p) /\ fetched[p].subs = "ok" /\ FetchedAs(p, i, st))
            => (TransitionMsgs(p, i) # {}
                  <=> (loadedSubs[p][i] # None /\ loadedSubs[p][i] # st))

\* C14 as amended: a transition notification is sent about a fetched
\* subscription if and only if the loaded map held it and the pair (loaded,
\* fetched) is active->expired or expired->active.
C14_TransitionIffAlertPair ==
    \A p \in Procs : \A i \in SubIds : \A st \in NormStatuses :
        (Finished(p) /\ fetched[p].subs = "ok" /\ FetchedAs(p, i, st))
            => (TransitionMsgs(p, i) # {}
                  <=> (loadedSubs[p][i] # None /\ <<loadedSubs[p][i], st>> \in AlertPairs))

\* a changed status (expired -> unrecognised) without a transition notification
C14_Witness ==
    /\ Finished(1) /\ fetched[1].subs = "ok"
    /\ loadedSubs[1]["S1"] = "expired"
    /\ FetchedAs(1, "S1", "suspended")
    /\ TransitionMsgs(1, "S1") = {}

LastOccurrence(p, i) ==
    CHOOSE k \in Occurrences(p, i) : \A j \in Occurrences(p, i) : j <= k

\* C15: after a run whose subscription fetch succeeded, the file holds for
\* every fetched id the normalised status of its last occurrence in the list.
C15_LastOccurrenceStored ==
    \A p \in Procs : \A i \in SubIds :
        (Finished(p) /\ fetched[p].subs = "ok" /\ Occurrences(p, i) # {})
            => subsFile.subscriptions[i] =
                   Normalize(subItems[p][LastOccurrence(p, i)].status)

\* the id occurs twice with different statuses
C15_Witness ==
    /\ Finished(1) /\ fetched[1].subs = "ok"
    /\ loadedSubs[1]["S1"] = "active"
    /\ subItems[1] = <<[id |-> "S1", status |-> "Expired"], [id |-> "S1", status |-> "Suspended"]>>
    /\ subsFile.subscriptions["S1"] = "suspended"

SubMsgs(p) == { k \in 1..Len(busMsgs[p]) : busMsgs[p][k].cat # "ticket" }

\* C16: once a page request of the subscription fetch has failed, no
\* collection is handed on (the run goes straight to its summary), the map
\* in memory and the file are what the run loaded, and the run sends no
\* subscription notification.
C16_FailedPageLeavesState ==
    \A p \in Procs :
        fetched[p].subs = "none"
            => /\ pc[p] \in {"summary", "done"}
               /\ subItems[p] = <<>>
               /\ subscriptions[p] = loadedSubs[p]
               /\ LoadSubs(subsFile) = loadedSubs[p]
               /\ "subs" \notin wrote[p]
               /\ SubMsgs(p) = {}

\* the second page fails with a 500 after the first was fetched
C16_Witness ==
    /\ pc[1] = "summary" /\ fetched[1].subs = "none"
    /\ page[1] = 2
    /\ calls = <<[sent |-> <<"500">>, error |-> "500"]>>
    /\ loadedSubs[1]["S1"] = "active"

C18_ErrorIsFailedFetch ==
    \A p \in Procs :
        (Finished(p) /\ fetched[p].tickets = "other")
            => /\ result[p] = "False"
               /\ "tickets" \notin wrote[p]

AuthFailed(p) ==
    /\ pc[p] = "done" /\ result[p] = "False"
    /\ fetched[p].tickets \in {"sso", "auth"}

\* C19: a run that ended on an authentication failure has called auto_login.
C19_LoginAttempted == \A p \in Procs : AuthFailed(p) => triedLogin[p]

\* C20: a run that ended on an authentication failure has sent a message to
\* the developer.
C20_OperatorNotified == \A p \in Procs : AuthFailed(p) => devMsgs[p] # <<>>

NoResult(p) == fetched[p].tickets \in {"sso", "exception", "auth"}

\* C21: a run whose fetch() returned None (SSO redirect, exception, or token
\* error that the refresh did not cure) is over with False, has written
\* neither the known-tickets file nor the subscription file and has sent no
\* business notification.
C21_NoResultTouchesNothing ==
    \A p \in Procs :
        NoResult(p)
            => /\ pc[p] = "done" /\ result[p] = "False"
               /\ "tickets" \notin wrote[p]
               /\ "subs" \notin wrote[p]
               /\ busMsgs[p] = <<>>

\* a later run (the files exist) lost its session for good
C21_Witness ==
    /\ pc[1] = "done" /\ result[1] = "False"
    /\ fetched[1].tickets = "auth"
    /\ loaded[1] = {"T3"} /\ knownFile.tickets = {"T3"}
    /\ devMsgs[1] = <<"session_expired">>

Handed(texts) == outbox.done /\ dispatch.text \in texts

PostsTo(posts, aud) == { k \in 1..Len(posts) : posts[k] = aud }

\* the settings key of a business category
KeyOf(text) ==
    CASE text = "ticket"  -> "notify_tickets"
      [] text = "expired" -> "notify_expired"
      [] text = "renewed" -> "notify_renewed"
      [] text = "new_sub" -> "notify_new_sub"

\* C23: a business notification handed to an enabled Telegram is posted to
\* the primary audience, and the posts to the primary audience are the same
\* for every other state of the remote and local settings.
C23_PrimaryWhateverSettings ==
    Handed(BusinessTexts)
        => /\ dispatch.cfg.enabled => Cardinality(PostsTo(outbox.posts, "primary")) = 1
           /\ \A e \in Envs :
                PostsTo(send_to_all(dispatch.text, dispatch.cfg, e, dispatch.fail).posts,
                        "primary")
                    = PostsTo(outbox.posts, "primary")

\* the local file switches the category off: the group is left out, the
\* primary audience is not
C23_Witness ==
    /\ Handed({"expired"})
    /\ dispatch.cfg = [enabled |-> TRUE, group_chat_id |-> TRUE, dev_enabled |-> TRUE]
    /\ dispatch.env.local.exists /\ dispatch.env.local.body["notify_expired"] = "false"
    /\ dispatch.fail = {}
    /\ outbox.posts = <<"primary", "dev">>

\* C24: with Telegram enabled and a group configured, a business
\* notification is posted to the group if and only if the flag of its
\* category, in the settings the dispatch loaded, is true or missing.
C24_GroupIffFlag ==
    (Handed(BusinessTexts) /\ dispatch.cfg.enabled /\ dispatch.cfg.group_chat_id)
        => (PostsTo(outbox.posts, "group") # {}
              <=> Get(outbox.settings, KeyOf(dispatch.text)))

\* the audiences a business notification is due to
DueTo(text, cfg, settings) ==
    (IF cfg.enabled THEN {"primary"} ELSE {})
        \cup (IF cfg.enabled /\ cfg.group_chat_id /\ Get(settings, KeyOf(text))
              THEN {"group"} ELSE {})
        \cup (IF cfg.dev_enabled THEN {"dev"} ELSE {})

\* C25: whichever sends fail, a request is made to every audience the
\* business notification is due to.
C25_OtherAudiencesAttempted ==
    Handed(BusinessTexts)
        => \A aud \in DueTo(dispatch.text, dispatch.cfg, outbox.settings) :
             PostsTo(outbox.posts, aud) # {}

\* C26: a system message is posted to the developer and to nobody else, in
\* the same way whatever the settings are (none is loaded for it).
C26_SystemToDevOnly ==
    Handed(SystemTexts)
        => /\ outbox.posts = IF dispatch.cfg.dev_enabled THEN <<"dev">> ELSE <<>>
           /\ outbox.settings = EmptyMap

\* the summary, with every category switched off in the local file
C26_Witness ==
    /\ Handed({"summary"})
    /\ dispatch.cfg = [enabled |-> TRUE, group_chat_id |-> TRUE, dev_enabled |-> TRUE]
    /\ dispatch.env.local.exists
    /\ \A k \in SettingKeys : dispatch.env.local.body[k] = "false"
    /\ outbox.posts = <<"dev">>

\* C27: when a run has ended normally, every business notification it handed
\* to Telegram has also been handed to WhatsApp.
C27_AlsoOnWhatsApp ==
    \A p \in Procs :
        (Finished(p) /\ result[p] = "True")
            => \A k \in 1..Len(busMsgs[p]) : busMsgs[p][k] \in WhatsAppSent(p)

\* the settings the claim's precedence gives
Precedence(env) ==
    IF env.gh_token /\ env.remote.status = "200" /\ env.remote.body # EmptyMap
    THEN env.remote.body
    ELSE IF env.local.exists THEN env.local.body
    ELSE EmptyMap

\* C28: the settings a dispatch gates with are the remote copy when the
\* remote answers with a non-empty mapping, else the local file, else none.
C28_RemoteFirst ==
    (Handed(BusinessTexts) /\ dispatch.cfg.enabled)
        => outbox.settings = Precedence(dispatch.env)

\* C29: the steps of a run follow one another in the order ticket fetch,
\* ticket diff, ticket notifications, subscription fetch, subscription diff,
\* subscription notifications, state persistence, summary: while the ticket
\* steps run the subscription fetch has not begun, while the ticket or the
\* subscription steps run no state file has been written, and the summary is
\* the last thing the run does.
C29_StrictOrder ==
    \A p \in Procs :
        /\ pc[p] \in {"tickets", "loop"}
              => /\ fetched[p].tickets # None
                 /\ page[p] = 0 /\ fetched[p].subs = None
                 /\ wrote[p] \cap {"tickets", "subs"} = {}
        /\ pc[p] \in {"subs", "subsdiff", "subnotify"}
              => wrote[p] \cap {"tickets", "subs"} = {}
        /\ CountDev(p, "summary") > 0 => pc[p] = "done"

\* C30: the known-tickets file never loses an id: once a run has written it,
\* it holds every id that run loaded, and it always holds every id that any
\* run so far found in it.
C30_KnownOnlyGrows ==
    /\ \A p \in Procs : "tickets" \in wrote[p] => loaded[p] \subseteq knownFile.tickets
    /\ seenKnown \subseteq LoadKnown(knownFile)

\* ------------------------------------------------------------ claims 31-40
\* the fetched tickets that carry a displayId the run did not load
Unknown(p, t) == t.displayId # "" /\ t.displayId \notin loaded[p]

\* the ticket loop has not handled a ticket yet
LoopNotStarted(p) ==
    /\ pc[p] \in {"loop", "save"}
    /\ known[p] = loaded[p]
    /\ fetched[p].tickets # None
    /\ "tickets" \notin wrote[p]

\* C33: the list of new tickets a run computes is exactly the fetched
\* tickets whose displayId is present and absent from the known set, in the
\* order in which the server returned them.
C33_NewInServerOrder ==
    \A p \in Procs :
        LoopNotStarted(p) =>
            new[p] = SelectSeq(items[p], LAMBDA t : Unknown(p, t))

\* two unknown tickets around nothing known: both are new, in fetch order
C33_Witness ==
    /\ LoopNotStarted(1) /\ pc[1] = "loop"
    /\ loaded[1] = {"T3"}
    /\ Len(items[1]) = 2
    /\ items[1][1].displayId = "T2" /\ items[1][2].displayId = "T1"
    /\ new[1] = items[1]

\* calls of browser_refresh_token among the statements of a fetch()
Refreshes(st) ==
    Count(st, "login") + Count(st, "refreshed") + Count(st, "refresh_failed")

\* what fetch() can hand to run(): a collection, an error result, or None
\* (after the SSO domain, an exception, or a recovery that did not help)
FetchReturns == {"ok", "other", "sso", "exception", "auth"}

\* C37: fetch() calls browser_refresh_token at most once and _fetch_api at
\* most twice, the second time only after a refresh that succeeded, and it
\* returns: the run is past the fetch with one of fetch()'s results.
C37_OneRecoveryCycle ==
    /\ Count(steps, "api") <= 2
    /\ Len(calls) = Count(steps, "api")
    /\ Refreshes(steps) <= 1
    /\ Count(steps, "api") = 2 => Refreshes(steps) = 1 /\ Count(steps, "refresh_failed") = 0
    /\ \A p \in Procs :
          fetched[p].tickets # None =>
              /\ fetched[p].tickets \in FetchReturns
              /\ pc[p] # "fetch"

\* the retry met a token error again: fetch() gave up with None after two
\* attempts and one refresh
C37_Witness ==
    /\ steps = <<"api", "refreshed", "save", "api">>
    /\ Len(calls) = 2
    /\ Outcome(calls[1]) = "token" /\ Outcome(calls[2]) = "token"
    /\ fetched[1].tickets = "auth"
    /\ pc[1] = "done" /\ result[1] = "False"

\* the run met an empty SubscriptionState and its subscription fetch succeeded
FirstSubsRun(p) ==
    /\ fetched[p].subs = "ok"
    /\ SubsCount(loadedSubs[p]) = 0
    /\ pc[p] \in {"summary", "done"}

\* C38: a run whose subscription fetch succeeds on an empty
\* SubscriptionState stores every fetched id with the status get_changes
\* would store for it, stores nothing else, writes the file, and neither
\* sends nor queues a subscription notification.
C38_FirstSubsRunSilent ==
    \A p \in Procs :
        FirstSubsRun(p) =>
            /\ SubMsgs(p) = {}
            /\ pending[p] = <<>>
            /\ \A k \in 1..Len(whatsapp_buffer[p]) : whatsapp_buffer[p][k].cat = "ticket"
            /\ "subs" \in wrote[p]
            /\ subsFile.exists
            /\ \A i \in SubIds :
                  subsFile.subscriptions[i] =
                      IF Occurrences(p, i) = {} THEN None
                      ELSE Normalize(subItems[p][LastOccurrence(p, i)].status)

\* two subscribers the state never held, one of them expired: both stored,
\* nobody told
C38_Witness ==
    /\ FirstSubsRun(1) /\ Finished(1)
    /\ subItems[1] = <<[id |-> "S1", status |-> "Expired"], [id |-> "S2", status |-> "Active"]>>
    /\ subsFile.subscriptions = [i \in SubIds |-> IF i = "S1" THEN "expired" ELSE "active"]
    /\ busMsgs[1] = <<>>

\* C34: two runs of one scheduler that both got past the Run Guard and
\* fetched had passed the guard at least MIN_RUN_INTERVAL seconds apart,
\* however the earlier one ended.
C34_PassesSpaced ==
    \A i \in 1..Len(passes) : \A j \in 1..Len(passes) :
        i < j => passes[j] - passes[i] >= MIN_RUN_INTERVAL

\* json.loads cannot give TicketState the content of the known-tickets file
Unreadable(f) == ~f.exists \/ ~f.json

\* C39: while the known-tickets file is missing or does not parse, a run
\* has an empty known set, reads 0 as last_run, is not skipped by the Run
\* Guard, takes the first-run branch once it has fetched, and brings no
\* ticket to the dispatch; and a run that took the first-run branch has
\* sent no ticket notification.
C39_UnreadableIsFirstRun ==
    \A p \in Procs :
        /\ (Unreadable(knownFile) /\ Running(p))
              => /\ known[p] = {} /\ loaded[p] = {}
                 /\ pc[p] \in {"guard", "fetch", "tickets"}
                 /\ pc[p] = "fetch" => guardAt[p].last_run = 0 /\ guardAt[p].now # 0
                 /\ pc[p] = "tickets" => IsFirstRun(known[p])
                 /\ due[p] = {} /\ TicketMsgs(p) = {}
        /\ (Unreadable(knownFile) /\ pc[p] = "done")
              => result[p] \in {"False", "killed"}
        /\ (Finished(p) /\ CountDev(p, "started") > 0)
              => due[p] = {} /\ TicketMsgs(p) = {} /\ knownFile.json

\* the file does not parse, though its text names T3 and a run 100 s ago:
\* the run is past the guard with a fresh ticket fetched and nothing known
C39_Witness ==
    /\ knownFile = Unparsable(SaveKnown({"T3"}, T0 - EarlierRunAge))
    /\ now = T0
    /\ pc[1] = "tickets"
    /\ known[1] = {}
    /\ Len(items[1]) = 2 /\ items[1][1].displayId = "T2"

\* the items of the responses, in the order of the responses
RECURSIVE Flatten(_)
Flatten(P) == IF P = <<>> THEN <<>> ELSE P[1].items \o Flatten(Tail(P))

\* the stop rule at response k: a short page, or the total reached
Stops(P, k) ==
    \/ Len(P[k].items) < PageSize
    \/ Len(Flatten(SubSeq(P, 1, k))) >= P[k].totalCount

\* C32: while every page request succeeds the call asks for pages 1, 2, ...
\* in order, goes on exactly while the page is full and the total is not
\* reached, returns at the first response that meets the stop rule, and
\* what it has collected is the concatenation of the pages received.
C32_PagesInOrderUntilStop ==
    \A p \in Procs :
        (pc[p] = "subs" \/ fetched[p].subs = "ok") =>
            /\ \A k \in 1..Len(pages) : pages[k].number = k
            /\ subItems[p] = Flatten(pages)
            /\ \A k \in 1..(Len(pages) - 1) : ~Stops(pages, k)
            /\ pc[p] = "subs" =>
                  /\ page[p] = Len(pages) + 1
                  /\ pages # <<>> => ~Stops(pages, Len(pages))
            /\ fetched[p].subs = "ok" =>
                  /\ pc[p] = "subsdiff"
                  /\ pages # <<>> /\ Stops(pages, Len(pages))

\* two full pages, the total reached with the second: the collection is the
\* first page followed by the second
C32_Witness ==
    /\ pc[1] = "subsdiff" /\ fetched[1].subs = "ok"
    /\ Len(pages) = 2
    /\ pages[1].items = <<[id |-> "S2", status |-> "Active"]>> /\ pages[1].totalCount = 2
    /\ pages[2].items = <<[id |-> "S1", status |-> "Expired"]>> /\ pages[2].totalCount = 2
    /\ subItems[1] = <<[id |-> "S2", status |-> "Active"], [id |-> "S1", status |-> "Expired"]>>

\* the largest totalCount among the responses
MaxTotal(P) ==
    IF P = <<>> THEN 0
    ELSE CHOOSE n \in { P[k].totalCount : k \in 1..Len(P) } :
             \A k \in 1..Len(P) : P[k].totalCount <= n

\* C36 as claimed, for the page numbers the model follows: whatever the
\* server answers, the call has ended before it asks for page MaxPages + 1.
C36_EndsWithinMaxPages ==
    \A p \in Procs : page[p] <= MaxPages

\* C36 as amended: the call asks for a further page only while the items it
\* has fetched are fewer than a total the server has reported, so with at
\* least two responses received, (responses - 1) * PageSize is below the
\* largest total reported; and once it has ended it has returned a
\* collection or None.
C36_EndsWithinReportedTotal ==
    /\ Len(pages) >= 2 => (Len(pages) - 1) * PageSize < MaxTotal(pages)
    /\ \A p \in Procs :
          /\ pc[p] = "subs" => page[p] = Len(pages) + 1
          /\ pc[p] \in {"subsdiff", "summary"} => fetched[p].subs \in {"ok", "none"}

\* three full pages under totals of at most 3, the call returned
C36_Witness ==
    /\ Len(pages) = 3
    /\ MaxTotal(pages) = 3
    /\ pc[1] = "subsdiff" /\ fetched[1].subs = "ok"
    /\ Len(subItems[1]) = 3

\* C31: a kill leaves each state file whole.  The file a save() was writing
\* when the kill came holds what it held before or what save() was writing,
\* and a state file that exists parses.
C31_KillLeavesWholeFiles ==
    /\ \A c \in cut : c.left \in {c.old, c.new}
    /\ knownFile.exists => knownFile.json
    /\ subsFile.exists => subsFile.json

\* the attempts of a step so far, in order
TriedOf(step) ==
    LET RECURSIVE Pick(_)
        Pick(q) == IF q = <<>> THEN <<>>
                   ELSE IF Head(q).step = step THEN <<Head(q).selector>> \o Pick(Tail(q))
                   ELSE Pick(Tail(q))
    IN  Pick(form.tried)
\* the step went through its whole list and no selector worked
Exhausted(step) ==
    /\ TriedOf(step) = SelectorsOf(step)
    /\ Range(SelectorsOf(step)) \cap form.markup[step] = {}
LaterSteps(step) ==
    IF step = "username" THEN {"password", "submit"}
    ELSE IF step = "password" THEN {"submit"}
    ELSE {}

\* C35: each form step tries its selectors in the order of its list and
\* stops at the first that works; a step that runs out of selectors ends
\* the login with False, and no later step is attempted.
C35_ExhaustedStepEndsLogin ==
    \A k \in 1..3 :
        LET step == FormSteps[k] IN
        /\ TriedOf(step) # <<>> =>
              TriedOf(step) = TrySelectors(SelectorsOf(step), form.markup[step]).tried
        /\ Exhausted(step) =>
              /\ form.pc = "done" /\ form.result = "False"
              /\ \A later \in LaterSteps(step) : TriedOf(later) = <<>>
              /\ form.pc # "wait"

\* the last click was made by the configured owner or developer, or by an
\* administrator (or the creator) of the group chat
ByPrivileged ==
    \/ bot.click.user \in bot.allow_list
    \/ bot.click.chat = "group" /\ bot.click.status \in {"creator", "administrator"}
\* the last click's callback is toggle:<key> for a known category key
OnKnownKey ==
    /\ Len(bot.click.data) = 2
    /\ bot.click.data[1] = "toggle"
    /\ bot.click.data[2] \in SETTINGS_MAP
\* c is the settings the last click loaded, with exactly its key switched
LoadedWithKeyFlipped(c) ==
    /\ c.exists
    /\ \A k \in SETTINGS_MAP :
         IF k = bot.click.data[2]
         THEN c.d[k] = (IF bot.click.loaded[k] = "false" THEN "true" ELSE "false")
         ELSE c.d[k] = bot.click.loaded[k]

\* C40, as stated: after a click the settings file differs from before only
\* if the click was privileged and on a known key, and after such a click
\* the file holds the loaded settings with exactly that key switched.
C40_FileChangesOnlyByToggle ==
    bot.clicks > 0 =>
        /\ bot.SETTINGS_FILE # bot.click.before => ByPrivileged /\ OnKnownKey
        /\ (ByPrivileged /\ OnKnownKey /\ bot.click.written)
              => LoadedWithKeyFlipped(bot.SETTINGS_FILE)

\* C40, amended: button_click itself writes the settings file only for a
\* privileged click on a known key, and what it writes is the loaded
\* settings with exactly that key switched; the file differs after a click
\* only if the click was privileged and neither 'ignore' nor 'refresh' (the
\* clicks for which the handler runs git).
C40_HandlerWritesOnlyTheToggle ==
    bot.clicks > 0 =>
        /\ bot.click.written => ByPrivileged /\ OnKnownKey
        /\ bot.click.written => LoadedWithKeyFlipped(bot.click.wrote)
        /\ bot.SETTINGS_FILE # bot.click.before =>
              ByPrivileged /\ bot.click.data \notin {<<"ignore">>, <<"refresh">>}

\* an administrator of the group, in neither ID variable, switched
\* notify_expired off on settings that came from GitHub and differ from the
\* local file; the file holds what the handler wrote
C40_Witness ==
    /\ bot.clicks = 1
    /\ bot.click.user = "other" /\ bot.click.chat = "group"
    /\ bot.click.status = "administrator"
    /\ bot.click.data = <<"toggle", "notify_expired">>
    /\ bot.click.written
    /\ bot.click.loaded # bot.click.before.d
    /\ bot.click.loaded["notify_expired"] = "true"
    /\ bot.click.wrote.d["notify_expired"] = "false"
    /\ bot.SETTINGS_FILE = bot.click.wrote

====
